---- MODULE Spec2Model ----
(***************************************************************************)
(* Room-scoped file relay (src/src/pages/api/socket/file-share.ts) and the *)
(* file-share station client (src/src/components/file-share-station.tsx).  *)
(*                                                                         *)
(* Room ids are sequences of one-character strings so that trim() is       *)
(* computed; file names and paths are strings.  A JavaScript value is a    *)
(* record [type, str]; a request                                           *)
(* payload is a record [kind, roomId, body] where kind tells whether the   *)
(* client passed an object, undefined (no argument) or null.               *)
(* File contents are symbolic: byte k of file f is the pair (f, k), so a   *)
(* Blob is a sequence of byte ranges [src, lo, hi) and two Blobs hold the  *)
(* same bytes iff their normalised range sequences are equal.              *)
(***************************************************************************)
EXTENDS Integers, Sequences, FiniteSets, TLC

\* ---------------------------------------------------------------- bounds
NumConns == 2
MaxChunks == 2
MaxQueue == 2
MaxFiles == 1
MaxRuns == 2
MaxNotes == 2
MaxTexts == 2
MaxEdits == 3

\* ------------------------------------------------------ program constants
FILE_CHUNK_SIZE == 512 * 1024
PARALLEL_LIMIT == 3

\* ------------------------------------------------------------ JS values
Conns == 1..NumConns

DigitChars == <<"1", "2", "3", "4", "5", "6", "7", "8", "9">>

\* client.id: the relay gives every connection an identifier of its own,
\* which is also the name of the private room the connection starts in.
SocketId(c) == <<"#", DigitChars[c]>>

StrVal(s) == [type |-> "string", str |-> s]
NumberVal == [type |-> "number", str |-> <<>>]
UndefinedVal == [type |-> "undefined", str |-> <<>>]

IsWhitespace(ch) == ch \in {" ", "\t", "\n"}

RECURSIVE TrimStart(_)
TrimStart(s) ==
    IF s # <<>> /\ IsWhitespace(Head(s)) THEN TrimStart(Tail(s)) ELSE s

RECURSIVE TrimEnd(_)
TrimEnd(s) ==
    IF s # <<>> /\ IsWhitespace(s[Len(s)])
    THEN TrimEnd(SubSeq(s, 1, Len(s) - 1))
    ELSE s

\* String.prototype.trim
Trim(s) == TrimEnd(TrimStart(s))

\* typeof roomId !== "string" || roomId.trim() === ""   (negated)
ValidRoomIdMutNoTrim(v) == v.type = "string" /\ v.str # <<>>
ValidRoomId(v) == v.type = "string" /\ Trim(v.str) # <<>>

\* ------------------------------------------------------------ payloads
NoChunk == [src |-> 0, lo |-> 0, hi |-> 0]

NoBody ==
    [transferId |-> 0, size |-> 0, relativePath |-> "", totalChunks |-> 0,
     chunkIndex |-> 0, chunk |-> NoChunk, message |-> ""]

ObjectPayload(roomIdVal, body) ==
    [kind |-> "object", roomId |-> roomIdVal, body |-> body]
UndefinedPayload == [kind |-> "undefined", roomId |-> UndefinedVal, body |-> NoBody]
NullPayload == [kind |-> "null", roomId |-> UndefinedVal, body |-> NoBody]

\* const { roomId } = payload ?? {};
RoomIdOf(payload) ==
    IF payload.kind = "object" THEN payload.roomId ELSE UndefinedVal

\* ({ roomId }) => ... : destructuring the parameter itself raises a
\* TypeError when the argument is undefined or null.
DestructureThrows(payload) == payload.kind # "object"

FileEvents == {"file:meta", "file:chunk", "file:complete", "file:error"}

\* -------------------------------------------------------------- state
VARIABLES
    connected,   \* connections whose transport is open
    rooms,       \* adapter: connection -> set of room names it is in
    thrown,      \* relay events whose handler raised an uncaught error
    lastReq,     \* the request the relay handled last
    preRooms,    \* rooms as they were when that request arrived
    emitted,     \* messages the relay emitted while handling it
    attached,    \* connections driven by a modelled station client
    toRelay,     \* connection -> requests sent but not yet handled
    inbox,       \* connection -> messages delivered but not yet handled
    queuedFiles,     \* station: the send queue
    outgoingFiles,   \* station: outgoing transfers
    sendRuns,        \* station: handleSendQueuedFiles calls in progress
    sendTasks,       \* station: sendFile calls waiting for a chunk read
    incomingFiles,   \* station: incoming transfers
    incomingBuffers, \* station: transferId -> slot buffer
    nextId,          \* the next identifier the random generator yields
    origin,          \* transferId -> where it came from (history)
    emitThrows,      \* the emissions on which socket.emit raises an error
    folderActionMessage, \* station: the notice shown under the folders
    lastMsg,         \* the message a station handled last and the
                     \* incoming transfers and slot buffers it found
    lastSave,        \* what the handler that ran last wrote outside the
                     \* station: directory picker, archive, files
    alone,           \* station -> transferId -> the incoming transfers and
                     \* slot buffers of a station that was sent the
                     \* messages of that transfer and no others (history)
    missed,          \* station -> the transferIds whose latest file:meta
                     \* a socket handed to the relay while the station
                     \* was not in the room it names (history)
    notes,           \* notepad: note id -> title, content, isSaving
    selectedNoteId,  \* notepad: the note in the editor, NoNote for null
    titleInput,      \* notepad: the text of the title field
    contentInput,    \* notepad: the text of the content field
    pendingPatchRef, \* notepad: field -> text, the patch being collected
    saveTimeoutRef,  \* notepad: the debounce timer and the note id its
                     \* callback was created with
    noteRequests,    \* notepad: what it emitted and fetched, in order
    notePatching     \* notepad: note id -> PATCH fetches not yet settled

relayVars == <<connected, rooms, thrown, lastReq, preRooms, emitted>>
netVars == <<attached, toRelay, inbox>>
senderVars ==
    <<queuedFiles, outgoingFiles, sendRuns, sendTasks, nextId, origin,
      emitThrows, folderActionMessage>>
heldVars == <<incomingFiles, incomingBuffers, lastMsg, lastSave, alone>>
noteVars == <<notes, selectedNoteId, titleInput, contentInput, pendingPatchRef,
              saveTimeoutRef, noteRequests, notePatching>>
\* The notepad is another component of the page: the station's sender
\* leaves it alone together with what the receiver keeps.
receiverVars == <<heldVars, missed, noteVars>>
stationVars == <<senderVars, receiverVars>>
vars == <<relayVars, netVars, stationVars>>

NoReq == [conn |-> 0, event |-> "none", payload |-> UndefinedPayload]

NoMsg == [to |-> 0, event |-> "none", body |-> NoBody,
          files |-> <<>>, buffers |-> <<>>]

\* selectedNoteId = null
NoNote == 0

\* The notes the page was rendered with, none of them edited: text 0 is
\* the text a note came with and texts 1.. are what the user types.
NoteIds == 1..MaxNotes
Texts == 1..MaxTexts
NoteFields == {"title", "content"}

\* CollaborativeNotepad after its first render and its mount effect:
\* the first note is selected, nothing waits to be saved, no timer.
NotepadIdle ==
    /\ notes = [n \in NoteIds |->
                  [title |-> 0, content |-> 0, isSaving |-> FALSE]]
    /\ selectedNoteId = 1
    /\ titleInput = 0
    /\ contentInput = 0
    /\ pendingPatchRef = <<>>
    /\ saveTimeoutRef = [armed |-> FALSE, id |-> NoNote]
    /\ noteRequests = <<>>
    /\ notePatching = [n \in NoteIds |-> 0]

NoSave == [folderName |-> "", picker |-> FALSE, archive |-> FALSE,
           written |-> <<>>]

Req(c, ev, payload) == [conn |-> c, event |-> ev, payload |-> payload]

Msg(to, ev, payload, room) ==
    [to |-> to, event |-> ev, payload |-> payload, room |-> room]

\* --------------------------------------------------- adapter broadcast
\* The sockets in any of the excepted rooms.
ExceptSidsMutNone(rms, exceptRooms) == {}
ExceptSids(rms, exceptRooms) ==
    {d \in Conns : rms[d] \cap exceptRooms # {}}

\* client.to(roomId): the members of roomId, minus the members of the
\* sender's private room (the sender itself).
RecipientsMutIncludeSender(rms, c, r) == {d \in Conns : r \in rms[d]}
RecipientsMutOthers(rms, c, r) ==
    {d \in Conns : rms[d] # {}} \ ({c} \cup {d \in Conns : r \in rms[d]})
Recipients(rms, c, r) ==
    {d \in Conns : r \in rms[d]} \ ExceptSids(rms, {SocketId(c)})

RECURSIVE SeqOfConns(_)
SeqOfConns(S) ==
    IF S = {} THEN <<>>
    ELSE LET d == CHOOSE x \in S : \A y \in S : x <= y
         IN <<d>> \o SeqOfConns(S \ {d})

\* One message per recipient.
Fanout(S, ev, payload, r) ==
    LET order == SeqOfConns(S)
    IN [i \in 1..Len(order) |-> Msg(order[i], ev, payload, r)]

RECURSIVE Deliver(_, _)
Deliver(box, msgs) ==
    IF msgs = <<>> THEN box
    ELSE LET m == Head(msgs)
         IN Deliver(IF m.to \in attached
                    THEN [box EXCEPT ![m.to] = Append(@, m)]
                    ELSE box,
                    Tail(msgs))

Handled(c, ev, payload, out) ==
    /\ lastReq' = Req(c, ev, payload)
    /\ preRooms' = rooms
    /\ emitted' = out
    /\ inbox' = Deliver(inbox, out)

\* ------------------------------------------------------ relay handlers
\* io.on("connection"): the new socket is in its private room only.
Connect(c) ==
    /\ c \notin connected
    /\ connected' = connected \cup {c}
    /\ rooms' = [rooms EXCEPT ![c] = {SocketId(c)}]
    /\ Handled(c, "connection", UndefinedPayload, <<>>)
    /\ UNCHANGED thrown

\* client.on("room:join", ({ roomId }) => ...)
RoomJoinMutOneRoom(c, payload) ==
    /\ c \in connected
    /\ IF DestructureThrows(payload)
       THEN /\ thrown' = thrown \cup {"room:join"}
            /\ Handled(c, "room:join", payload, <<>>)
            /\ UNCHANGED <<connected, rooms>>
       ELSE IF ~ValidRoomId(payload.roomId)
       THEN /\ Handled(c, "room:join", payload, <<>>)
            /\ UNCHANGED <<connected, rooms, thrown>>
       ELSE LET r == payload.roomId.str
                joinedRooms == [rooms EXCEPT ![c] = {SocketId(c), r}]
                ack == ObjectPayload(payload.roomId, NoBody)
            IN /\ rooms' = joinedRooms
               /\ Handled(c, "room:join", payload,
                          <<Msg(c, "room:joined", ack, r)>>
                          \o Fanout(Recipients(joinedRooms, c, r),
                                    "peer:joined", ack, r))
               /\ UNCHANGED <<connected, thrown>>
RoomJoin(c, payload) ==
    /\ c \in connected
    /\ IF DestructureThrows(payload)
       THEN /\ thrown' = thrown \cup {"room:join"}
            /\ Handled(c, "room:join", payload, <<>>)
            /\ UNCHANGED <<connected, rooms>>
       ELSE IF ~ValidRoomId(payload.roomId)
       THEN /\ Handled(c, "room:join", payload, <<>>)
            /\ UNCHANGED <<connected, rooms, thrown>>
       ELSE LET r == payload.roomId.str
                joinedRooms == [rooms EXCEPT ![c] = @ \cup {r}]
                ack == ObjectPayload(payload.roomId, NoBody)
            IN /\ rooms' = joinedRooms
               /\ Handled(c, "room:join", payload,
                          <<Msg(c, "room:joined", ack, r)>>
                          \o Fanout(Recipients(joinedRooms, c, r),
                                    "peer:joined", ack, r))
               /\ UNCHANGED <<connected, thrown>>

\* client.on("room:leave", ({ roomId }) => ...)
RoomLeaveMutNoLeave(c, payload) ==
    /\ c \in connected
    /\ IF DestructureThrows(payload)
       THEN /\ thrown' = thrown \cup {"room:leave"}
            /\ Handled(c, "room:leave", payload, <<>>)
            /\ UNCHANGED <<connected, rooms>>
       ELSE IF ~ValidRoomId(payload.roomId)
       THEN /\ Handled(c, "room:leave", payload, <<>>)
            /\ UNCHANGED <<connected, rooms, thrown>>
       ELSE LET r == payload.roomId.str
                note == ObjectPayload(payload.roomId, NoBody)
            IN /\ Handled(c, "room:leave", payload,
                          Fanout(Recipients(rooms, c, r),
                                 "peer:left", note, r))
               /\ UNCHANGED <<connected, rooms, thrown>>
RoomLeaveMutMemberOnly(c, payload) ==
    /\ c \in connected
    /\ IF DestructureThrows(payload)
       THEN /\ thrown' = thrown \cup {"room:leave"}
            /\ Handled(c, "room:leave", payload, <<>>)
            /\ UNCHANGED <<connected, rooms>>
       ELSE IF ~ValidRoomId(payload.roomId)
       THEN /\ Handled(c, "room:leave", payload, <<>>)
            /\ UNCHANGED <<connected, rooms, thrown>>
       ELSE LET r == payload.roomId.str
                leftRooms == [rooms EXCEPT ![c] = @ \ {r}]
                note == ObjectPayload(payload.roomId, NoBody)
            IN /\ rooms' = leftRooms
               /\ Handled(c, "room:leave", payload,
                          IF r \in rooms[c]
                          THEN Fanout(Recipients(leftRooms, c, r),
                                      "peer:left", note, r)
                          ELSE <<>>)
               /\ UNCHANGED <<connected, thrown>>
RoomLeave(c, payload) ==
    /\ c \in connected
    /\ IF DestructureThrows(payload)
       THEN /\ thrown' = thrown \cup {"room:leave"}
            /\ Handled(c, "room:leave", payload, <<>>)
            /\ UNCHANGED <<connected, rooms>>
       ELSE IF ~ValidRoomId(payload.roomId)
       THEN /\ Handled(c, "room:leave", payload, <<>>)
            /\ UNCHANGED <<connected, rooms, thrown>>
       ELSE LET r == payload.roomId.str
                leftRooms == [rooms EXCEPT ![c] = @ \ {r}]
                note == ObjectPayload(payload.roomId, NoBody)
            IN /\ rooms' = leftRooms
               /\ Handled(c, "room:leave", payload,
                          Fanout(Recipients(leftRooms, c, r),
                                 "peer:left", note, r))
               /\ UNCHANGED <<connected, thrown>>

\* client.on("file:meta" | "file:chunk" | "file:complete" | "file:error")
FileRelayMutDestructure(c, ev, payload) ==
    /\ c \in connected
    /\ ev \in FileEvents
    /\ IF DestructureThrows(payload)
       THEN /\ thrown' = thrown \cup {ev}
            /\ Handled(c, ev, payload, <<>>)
       ELSE /\ IF ~ValidRoomId(payload.roomId)
               THEN Handled(c, ev, payload, <<>>)
               ELSE Handled(c, ev, payload,
                            Fanout(Recipients(rooms, c, payload.roomId.str),
                                   ev, payload, payload.roomId.str))
            /\ UNCHANGED thrown
    /\ UNCHANGED <<connected, rooms>>
FileRelay(c, ev, payload) ==
    /\ c \in connected
    /\ ev \in FileEvents
    /\ LET roomId == RoomIdOf(payload)
       IN IF ~ValidRoomId(roomId)
          THEN Handled(c, ev, payload, <<>>)
          ELSE Handled(c, ev, payload,
                       Fanout(Recipients(rooms, c, roomId.str),
                              ev, payload, roomId.str))
    /\ UNCHANGED <<connected, rooms, thrown>>

RECURSIVE SeqOfRooms(_)
SeqOfRooms(S) ==
    IF S = {} THEN <<>>
    ELSE LET r == CHOOSE x \in S : TRUE
         IN <<r>> \o SeqOfRooms(S \ {r})

RECURSIVE PeerLeftAll(_, _, _)
PeerLeftAll(rms, c, roomSeq) ==
    IF roomSeq = <<>> THEN <<>>
    ELSE LET r == Head(roomSeq)
         IN Fanout(Recipients(rms, c, r), "peer:left",
                   ObjectPayload(StrVal(r), NoBody), r)
            \o PeerLeftAll(rms, c, Tail(roomSeq))

\* The transport of c closes.  The socket has left all its rooms by the
\* time its "disconnect" listeners run, so client.rooms is read from the
\* adapter after the cleanup.
Disconnect(c) ==
    /\ c \in connected
    /\ LET cleaned == [rooms EXCEPT ![c] = {}]
           joinedRooms == {r \in cleaned[c] : r # SocketId(c)}
       IN /\ connected' = connected \ {c}
          /\ rooms' = cleaned
          /\ Handled(c, "disconnect", UndefinedPayload,
                     PeerLeftAll(cleaned, c, SeqOfRooms(joinedRooms)))
    /\ UNCHANGED thrown

\* ---------------------------------------------------------------- blobs
CeilDiv(a, b) == (a + b - 1) \div b

Min(a, b) == IF a < b THEN a ELSE b

\* file.slice(start, end) of the file with identifier f and size bytes.
Slice(f, size, start, end) ==
    LET lo == Min(start, size)
        hi == Min(end, size)
    IN [src |-> f, lo |-> lo, hi |-> IF hi < lo THEN lo ELSE hi]

ByteLength(chunk) == chunk.hi - chunk.lo

\* new Blob(parts): the bytes of the parts one after the other.  Empty
\* parts add nothing and adjoining ranges of one file are one range.
RECURSIVE BlobOf(_)
BlobOf(parts) ==
    IF parts = <<>> THEN <<>>
    ELSE LET rest == BlobOf(Tail(parts))
             p == Head(parts)
         IN IF p.lo = p.hi THEN rest
            ELSE IF rest # <<>> /\ rest[1].src = p.src /\ rest[1].lo = p.hi
            THEN <<[src |-> p.src, lo |-> p.lo, hi |-> rest[1].hi]>> \o Tail(rest)
            ELSE <<p>> \o rest

\* ------------------------------------------------------- station: sender
\* roomId as typed into the station; effectiveRoomId = roomId.trim().
RoomIdInput == <<"x", " ">>
EffectiveRoomId == Trim(RoomIdInput)

\* Math.ceil(file.size / FILE_CHUNK_SIZE) || 1
TotalChunksMutNoFloor(size) == CeilDiv(size, FILE_CHUNK_SIZE)
TotalChunks(size) ==
    LET n == CeilDiv(size, FILE_CHUNK_SIZE) IN IF n = 0 THEN 1 ELSE n

MetaOf(body) ==
    [transferId |-> body.transferId, size |-> body.size,
     relativePath |-> body.relativePath, totalChunks |-> body.totalChunks]

MetaBody(meta) ==
    [NoBody EXCEPT !.transferId = meta.transferId, !.size = meta.size,
                   !.relativePath = meta.relativePath,
                   !.totalChunks = meta.totalChunks]

\* The sender side of one station while a handler runs: its queue, its
\* outgoing transfers, the calls in progress, the requests it has emitted
\* and the identifier generator.
StationOf(c) ==
    [queued |-> queuedFiles[c], outgoing |-> outgoingFiles[c],
     runs |-> sendRuns[c], tasks |-> sendTasks[c], out |-> <<>>,
     id |-> nextId, origin |-> origin]

EmitReq(S, c, ev, body) ==
    [S EXCEPT !.out =
        Append(@, Req(c, ev, ObjectPayload(StrVal(EffectiveRoomId), body)))]

\* socket.emit(ev, ...) for the queued file q raises an error.
EmitThrows(q, ev) == [file |-> q.id, event |-> ev] \in emitThrows

\* sendFile up to its first await: new transferId, outgoing transfer in
\* status pending, file:meta emitted, the read of chunk 0 started.
StartFile(S0, c, run, q) ==
    LET transferId == S0.id
        meta == [transferId |-> transferId, size |-> q.size,
                 relativePath |-> q.relativePath,
                 totalChunks |-> TotalChunks(q.size)]
        NotSame(item) == item.meta.transferId # transferId
        S1 == [S0 EXCEPT
                 !.id = @ + 1,
                 !.outgoing = Append(SelectSeq(@, NotSame),
                                     [meta |-> meta, sentChunks |-> 0,
                                      status |-> "pending",
                                      errorMessage |-> ""]),
                 !.origin = [t \in DOMAIN @ \cup {transferId} |->
                               IF t = transferId
                               THEN [conn |-> c, file |-> q.id, size |-> q.size,
                                     audience |-> {d \in Conns :
                                                     EffectiveRoomId \in rooms[d]}]
                               ELSE @[t]]]
       \* socket.emit("file:meta") stands before the try: an error it
       \* raises rejects the promise of sendFile and nothing more runs.
    IN IF EmitThrows(q, "file:meta") THEN S1
       ELSE EmitReq([S1 EXCEPT !.tasks = @ \cup
                        {[run |-> run, queued |-> q, meta |-> meta,
                          chunkIndex |-> 0]}],
                    c, "file:meta", MetaBody(meta))

\* batch.map(sendFile) for files[i+1 .. j] (1-based)
RECURSIVE StartBatch(_, _, _, _, _, _)
StartBatch(S, c, run, files, i, j) ==
    IF i >= j THEN S
    ELSE StartBatch(StartFile(S, c, run, files[i + 1]), c, run, files, i + 1, j)

\* The for loop of handleSendQueuedFiles at the top of an iteration.
\* batch.map starts every sendFile of the batch; when one of the promises
\* is rejected, Promise.all is rejected, the await raises and the call
\* ends with the loop unfinished.
RunLoopMutNoReturn(S, c, run) ==
    LET r == CHOOSE x \in S.runs : x.run = run
        j == Min(r.i + PARALLEL_LIMIT, Len(r.files))
    IN IF r.i < Len(r.files)
       THEN StartBatch(S, c, run, r.files, r.i, j)
       ELSE S
RECURSIVE RunLoop(_, _, _)
RunLoop(S, c, run) ==
    LET r == CHOOSE x \in S.runs : x.run = run
        j == Min(r.i + PARALLEL_LIMIT, Len(r.files))
    IN IF r.i < Len(r.files)
       THEN LET S1 == StartBatch(S, c, run, r.files, r.i, j)
            IN IF \E k \in (r.i + 1)..j : EmitThrows(r.files[k], "file:meta")
               THEN [S1 EXCEPT !.runs = @ \ {r}]
               ELSE S1
       ELSE [S EXCEPT !.runs = @ \ {r}]

\* Promise.all of the batch settles when its last sendFile returns; the
\* loop then moves on by PARALLEL_LIMIT.
BatchSettledMutEager(S, c, run) ==
    IF \A x \in S.runs : x.run # run
    THEN S
    ELSE LET r == CHOOSE x \in S.runs : x.run = run
             S1 == [S EXCEPT !.runs = (@ \ {r}) \cup
                                {[r EXCEPT !.i = @ + PARALLEL_LIMIT]}]
         IN RunLoop(S1, c, run)
BatchSettled(S, c, run) ==
    IF \/ \E t \in S.tasks : t.run = run
       \/ \A x \in S.runs : x.run # run
    THEN S
    ELSE LET r == CHOOSE x \in S.runs : x.run = run
             S1 == [S EXCEPT !.runs = (@ \ {r}) \cup
                                {[r EXCEPT !.i = @ + PARALLEL_LIMIT]}]
         IN RunLoop(S1, c, run)

\* finally { setQueuedFiles(prev => prev.filter(item => item.id !== queued.id)) }
DequeueMutKeep(S, task) == [S EXCEPT !.tasks = @ \ {task}]
DequeueMutHead(S, task) ==
    [S EXCEPT !.queued = IF @ = <<>> THEN @ ELSE Tail(@),
              !.tasks = @ \ {task}]
Dequeue(S, task) ==
    LET Keep(item) == item.id # task.queued.id
    IN [S EXCEPT !.queued = SelectSeq(@, Keep), !.tasks = @ \ {task}]

SetOutgoingMutReset(S, transferId, sentChunks, status, message) ==
    [S EXCEPT !.outgoing =
        [k \in DOMAIN @ |->
            IF @[k].meta.transferId = transferId
            THEN [@[k] EXCEPT !.sentChunks = IF sentChunks < 0 THEN 0 ELSE sentChunks,
                              !.status = status,
                              !.errorMessage = message]
            ELSE @[k]]]
SetOutgoing(S, transferId, sentChunks, status, message) ==
    [S EXCEPT !.outgoing =
        [k \in DOMAIN @ |->
            IF @[k].meta.transferId = transferId
            THEN [@[k] EXCEPT !.sentChunks = IF sentChunks < 0 THEN @ ELSE sentChunks,
                              !.status = status,
                              !.errorMessage = message]
            ELSE @[k]]]

\* The handler's state updates take effect; T is evaluated once.
Commit(T, c) ==
    \E S \in {T} :
        /\ queuedFiles' = [queuedFiles EXCEPT ![c] = S.queued]
        /\ outgoingFiles' = [outgoingFiles EXCEPT ![c] = S.outgoing]
        /\ sendRuns' = [sendRuns EXCEPT ![c] = S.runs]
        /\ sendTasks' = [sendTasks EXCEPT ![c] = S.tasks]
        /\ nextId' = S.id
        /\ origin' = S.origin
        /\ toRelay' = [toRelay EXCEPT ![c] = @ \o S.out]
        /\ UNCHANGED <<emitThrows, folderActionMessage>>

\* relativePath.includes(pattern), relativePath.endsWith(suffix),
\* pattern.startsWith(prefix)
Includes(str, pattern) ==
    \E i \in 1..(Len(str) - Len(pattern) + 1) :
        SubSeq(str, i, i + Len(pattern) - 1) = pattern

EndsWith(str, suffix) ==
    /\ Len(suffix) <= Len(str)
    /\ SubSeq(str, Len(str) - Len(suffix) + 1, Len(str)) = suffix

StartsWith(str, prefix) ==
    /\ Len(prefix) <= Len(str)
    /\ SubSeq(str, 1, Len(prefix)) = prefix

excludePatterns ==
    <<"node_modules/", ".git/", ".next/", "dist/", "build/", ".cache/",
      "coverage/", ".nyc_output/", "logs/", "*.log", ".DS_Store", "Thumbs.db">>

MatchesPatternMutLiteral(relativePath, pattern) ==
    Includes(relativePath, pattern)
MatchesPattern(relativePath, pattern) ==
    IF EndsWith(pattern, "/") THEN Includes(relativePath, pattern)
    ELSE IF StartsWith(pattern, "*.")
    THEN EndsWith(relativePath, SubSeq(pattern, 2, Len(pattern)))
    ELSE Includes(relativePath, pattern)

\* The predicate of files.filter, negated: the file is dropped.
Excluded(file) ==
    LET relativePath == IF file.webkitRelativePath # ""
                        THEN file.webkitRelativePath ELSE file.name
    IN \E i \in DOMAIN excludePatterns :
          MatchesPattern(relativePath, excludePatterns[i])

\* enqueueFiles(fileList)
EnqueueFiles(c, fileList) ==
    /\ c \in attached
    /\ IF fileList = <<>>
       THEN UNCHANGED <<queuedFiles, nextId, folderActionMessage>>
       ELSE LET Kept(file) == ~Excluded(file)
                filtered == SelectSeq(fileList, Kept)
                queued == [k \in 1..Len(filtered) |->
                             [id |-> nextId + k - 1, name |-> filtered[k].name,
                              size |-> filtered[k].size,
                              relativePath |-> filtered[k].webkitRelativePath]]
            IN /\ queuedFiles' = [queuedFiles EXCEPT ![c] = @ \o queued]
               /\ nextId' = nextId + Len(filtered)
               /\ folderActionMessage' =
                     IF Len(filtered) # Len(fileList)
                     THEN [folderActionMessage EXCEPT
                             ![c] = "Disaring "
                                    \o ToString(Len(fileList) - Len(filtered))
                                    \o " berkas (node_modules, .git, dll)"]
                     ELSE folderActionMessage
    /\ UNCHANGED <<relayVars, netVars, receiverVars, outgoingFiles, sendRuns,
                   sendTasks, origin, emitThrows>>

\* handleSendQueuedFiles
HandleSendQueuedFiles(c) ==
    /\ c \in attached
    /\ c \in connected
    /\ queuedFiles[c] # <<>>
    /\ LET run == CHOOSE n \in 1..(Cardinality(sendRuns[c]) + 1) :
                      \A r \in sendRuns[c] : r.run # n
           S0 == StationOf(c)
           S1 == [S0 EXCEPT !.runs = @ \cup
                     {[run |-> run, files |-> queuedFiles[c], i |-> 0]}]
       IN Commit(RunLoop(S1, c, run), c)
    /\ UNCHANGED <<relayVars, attached, inbox, receiverVars>>

\* catch (error) { ... } finally { ... } of sendFile
CatchMutSilent(S, c, task, message) ==
    LET S2 == SetOutgoing(S, task.meta.transferId, -1, "error", message)
    IN BatchSettled(Dequeue(S2, task), c, task.run)
Catch(S, c, task, message) ==
    LET S1 == EmitReq(S, c, "file:error",
                      [NoBody EXCEPT !.transferId = task.meta.transferId,
                                     !.message = message])
        S2 == SetOutgoing(S1, task.meta.transferId, -1, "error", message)
    IN BatchSettled(Dequeue(S2, task), c, task.run)

\* await blob.arrayBuffer() resolves for the chunk a sendFile waits for.
ChunkRead(c, task) ==
    /\ task \in sendTasks[c]
    /\ LET meta == task.meta
           chunkIndex == task.chunkIndex
           start == chunkIndex * FILE_CHUNK_SIZE
           end == Min(start + FILE_CHUNK_SIZE, task.queued.size)
           chunkBuffer == Slice(task.queued.id, task.queued.size, start, end)
           S0 == StationOf(c)
           S1 == EmitReq(S0, c, "file:chunk",
                         [NoBody EXCEPT !.transferId = meta.transferId,
                                        !.chunkIndex = chunkIndex,
                                        !.chunk = chunkBuffer])
           S2 == SetOutgoing(S1, meta.transferId, chunkIndex + 1, "sending", "")
       IN IF EmitThrows(task.queued, "file:chunk")
          THEN Commit(Catch(S0, c, task, "emit failed"), c)
          ELSE IF chunkIndex + 1 < meta.totalChunks
          THEN Commit([S2 EXCEPT !.tasks = (@ \ {task}) \cup
                          {[task EXCEPT !.chunkIndex = chunkIndex + 1]}], c)
          ELSE IF EmitThrows(task.queued, "file:complete")
          THEN Commit(Catch(S2, c, task, "emit failed"), c)
          ELSE LET S3 == EmitReq(S2, c, "file:complete",
                                 [NoBody EXCEPT !.transferId = meta.transferId])
                   S4 == SetOutgoing(S3, meta.transferId, -1, "complete", "")
               IN Commit(BatchSettled(Dequeue(S4, task), c, task.run), c)
    /\ UNCHANGED <<relayVars, attached, inbox, receiverVars>>

\* await blob.arrayBuffer() rejects.
ChunkReadFails(c, task) ==
    /\ task \in sendTasks[c]
    /\ Commit(Catch(StationOf(c), c, task, "read failed"), c)
    /\ UNCHANGED <<relayVars, attached, inbox, receiverVars>>

StationIdle ==
    /\ queuedFiles = [c \in Conns |-> <<>>]
    /\ outgoingFiles = [c \in Conns |-> <<>>]
    /\ sendRuns = [c \in Conns |-> {}]
    /\ sendTasks = [c \in Conns |-> {}]
    /\ incomingFiles = [c \in Conns |-> <<>>]
    /\ incomingBuffers = [c \in Conns |-> <<>>]
    /\ nextId = 1
    /\ origin = <<>>
    /\ emitThrows = {}
    /\ folderActionMessage = [c \in Conns |-> ""]
    /\ lastMsg = NoMsg
    /\ lastSave = NoSave
    /\ alone = [c \in Conns |-> <<>>]
    /\ missed = [c \in Conns |-> {}]
    /\ NotepadIdle

\* ----------------------------------------------------- station: receiver
\* An array slot nothing was written to.
Hole == NoChunk

\* Boolean(chunk): an ArrayBuffer is truthy whatever its length.
Truthy(slot) == slot # Hole

\* new Array(totalChunks)
NewArray(n) == [i \in 1..n |-> Hole]

Put(map, key, value) ==
    [k \in DOMAIN map \cup {key} |-> IF k = key THEN value ELSE map[k]]

Remove(map, key) == [k \in DOMAIN map \ {key} |-> map[k]]

\* buffers[chunkIndex] = chunk  (an index past the end lengthens the array)
SetSlotMutFirst(buffers, chunkIndex, chunk) ==
    [i \in 1..(IF Len(buffers) > 0 THEN Len(buffers) ELSE 1) |->
        IF i = 1 THEN chunk ELSE buffers[i]]
SetSlot(buffers, chunkIndex, chunk) ==
    LET n == IF Len(buffers) > chunkIndex THEN Len(buffers) ELSE chunkIndex + 1
    IN [i \in 1..n |->
          IF i = chunkIndex + 1 THEN chunk
          ELSE IF i <= Len(buffers) THEN buffers[i] ELSE Hole]

\* The file:* handlers as functions of the station they run in: st holds
\* the incoming transfers and the slot buffers, and the result is what
\* the handler of ev leaves for the payload body.
HandlerResult(st, ev, body) ==
    LET Mine(item) == item.meta.transferId = body.transferId
        Other(item) == item.meta.transferId # body.transferId
        known == body.transferId \in DOMAIN st.buffers
    IN IF ev = "file:meta"
       THEN [files |-> Append(SelectSeq(st.files, Other),
                              [meta |-> MetaOf(body), receivedBytes |-> 0,
                               receivedChunks |-> 0, status |-> "pending",
                               errorMessage |-> "", hasBlob |-> FALSE,
                               blob |-> <<>>]),
             buffers |-> Put(st.buffers, body.transferId,
                             NewArray(body.totalChunks))]
       ELSE IF ev = "file:chunk"
       THEN IF ~known THEN st
            ELSE [files |-> [k \in DOMAIN st.files |->
                               IF Mine(st.files[k])
                               THEN [st.files[k] EXCEPT
                                       !.receivedBytes = @ + ByteLength(body.chunk),
                                       !.receivedChunks = @ + 1,
                                       !.status = "receiving"]
                               ELSE st.files[k]],
                  buffers |-> [st.buffers EXCEPT ![body.transferId] =
                                 SetSlot(@, body.chunkIndex, body.chunk)]]
       ELSE IF ev = "file:complete"
       THEN IF ~known THEN st
            ELSE [files |-> [k \in DOMAIN st.files |->
                               IF Mine(st.files[k])
                               THEN [st.files[k] EXCEPT
                                       !.status = "complete",
                                       !.receivedBytes = st.files[k].meta.size,
                                       !.receivedChunks =
                                           st.files[k].meta.totalChunks,
                                       !.hasBlob = TRUE,
                                       !.blob = BlobOf(SelectSeq(
                                           st.buffers[body.transferId], Truthy))]
                               ELSE st.files[k]],
                  buffers |-> Remove(st.buffers, body.transferId)]
       ELSE IF ev = "file:error"
       THEN [files |-> [k \in DOMAIN st.files |->
                          IF Mine(st.files[k])
                          THEN [st.files[k] EXCEPT
                                  !.status = "error",
                                  !.errorMessage =
                                      IF body.message = ""
                                      THEN "Terjadi kesalahan saat menerima berkas."
                                      ELSE body.message]
                          ELSE st.files[k]],
             buffers |-> Remove(st.buffers, body.transferId)]
       ELSE st

\* The stations that get one transfer each, after one more message: the
\* message goes to the station of its transferId, which starts empty.
AloneAfter(stations, ev, body) ==
    IF ev \notin FileEvents THEN stations
    ELSE LET t == body.transferId
             st == IF t \in DOMAIN stations THEN stations[t]
                   ELSE [files |-> <<>>, buffers |-> <<>>]
         IN Put(stations, t, HandlerResult(st, ev, body))

InboxHead(c, ev) ==
    /\ c \in attached
    /\ inbox[c] # <<>>
    /\ Head(inbox[c]).event = ev

Received(c) ==
    /\ inbox' = [inbox EXCEPT ![c] = Tail(@)]
    /\ lastMsg' = [to |-> c, event |-> Head(inbox[c]).event,
                   body |-> Head(inbox[c]).payload.body,
                   files |-> incomingFiles[c],
                   buffers |-> incomingBuffers[c]]
    /\ lastSave' = NoSave
    /\ alone' = [alone EXCEPT ![c] =
                    AloneAfter(@, Head(inbox[c]).event,
                               Head(inbox[c]).payload.body)]
    /\ UNCHANGED <<relayVars, attached, toRelay, senderVars, missed, noteVars>>

\* socket.on("room:joined" | "peer:joined" | "peer:left")
OnNotice(c) ==
    /\ \E ev \in {"room:joined", "peer:joined", "peer:left"} : InboxHead(c, ev)
    /\ Received(c)
    /\ UNCHANGED <<incomingFiles, incomingBuffers>>

\* socket.on("file:meta")
OnFileMetaMutKeepBuffer(c) ==
    /\ InboxHead(c, "file:meta")
    /\ LET meta == MetaOf(Head(inbox[c]).payload.body)
           Other(item) == item.meta.transferId # meta.transferId
       IN /\ incomingBuffers' =
                [incomingBuffers EXCEPT
                    ![c] = IF meta.transferId \in DOMAIN @ THEN @
                           ELSE Put(@, meta.transferId,
                                    NewArray(meta.totalChunks))]
          /\ incomingFiles' =
                [incomingFiles EXCEPT
                    ![c] = Append(SelectSeq(@, Other),
                                  [meta |-> meta, receivedBytes |-> 0,
                                   receivedChunks |-> 0, status |-> "pending",
                                   errorMessage |-> "", hasBlob |-> FALSE,
                                   blob |-> <<>>])]
    /\ Received(c)
OnFileMeta(c) ==
    /\ InboxHead(c, "file:meta")
    /\ LET meta == MetaOf(Head(inbox[c]).payload.body)
           Other(item) == item.meta.transferId # meta.transferId
       IN /\ incomingBuffers' =
                [incomingBuffers EXCEPT
                    ![c] = Put(@, meta.transferId, NewArray(meta.totalChunks))]
          /\ incomingFiles' =
                [incomingFiles EXCEPT
                    ![c] = Append(SelectSeq(@, Other),
                                  [meta |-> meta, receivedBytes |-> 0,
                                   receivedChunks |-> 0, status |-> "pending",
                                   errorMessage |-> "", hasBlob |-> FALSE,
                                   blob |-> <<>>])]
    /\ Received(c)

\* socket.on("file:chunk")
OnFileChunkMutNoGuard(c) ==
    /\ InboxHead(c, "file:chunk")
    /\ LET payload == Head(inbox[c]).payload.body
       IN /\ incomingBuffers' =
                [incomingBuffers EXCEPT
                    ![c] = IF payload.transferId \in DOMAIN @
                           THEN [@ EXCEPT ![payload.transferId] =
                                   SetSlot(@, payload.chunkIndex, payload.chunk)]
                           ELSE @]
          /\ incomingFiles' =
                [incomingFiles EXCEPT
                    ![c] = [k \in DOMAIN @ |->
                       IF @[k].meta.transferId # payload.transferId
                       THEN @[k]
                       ELSE [@[k] EXCEPT
                               !.receivedBytes = @ + ByteLength(payload.chunk),
                               !.receivedChunks = @ + 1,
                               !.status = "receiving"]]]
    /\ Received(c)
OnFileChunkMutCountOnce(c) ==
    /\ InboxHead(c, "file:chunk")
    /\ LET payload == Head(inbox[c]).payload.body
       IN IF payload.transferId \notin DOMAIN incomingBuffers[c]
          THEN UNCHANGED <<incomingFiles, incomingBuffers>>
          ELSE LET buffers == incomingBuffers[c][payload.transferId]
                   fresh == \/ payload.chunkIndex + 1 > Len(buffers)
                            \/ ~Truthy(buffers[payload.chunkIndex + 1])
               IN /\ incomingBuffers' =
                        [incomingBuffers EXCEPT
                            ![c][payload.transferId] =
                                SetSlot(@, payload.chunkIndex, payload.chunk)]
                  /\ incomingFiles' =
                        [incomingFiles EXCEPT
                            ![c] = [k \in DOMAIN @ |->
                               IF @[k].meta.transferId # payload.transferId
                               THEN @[k]
                               ELSE [@[k] EXCEPT
                                       !.receivedBytes =
                                           IF fresh
                                           THEN @ + ByteLength(payload.chunk)
                                           ELSE @,
                                       !.receivedChunks =
                                           IF fresh THEN @ + 1 ELSE @,
                                       !.status = "receiving"]]]
    /\ Received(c)
OnFileChunkMutRegister(c) ==
    /\ InboxHead(c, "file:chunk")
    /\ LET payload == Head(inbox[c]).payload.body
           held == IF payload.transferId \in DOMAIN incomingBuffers[c]
                   THEN incomingBuffers[c][payload.transferId] ELSE <<>>
       IN /\ incomingBuffers' =
                [incomingBuffers EXCEPT
                    ![c] = Put(@, payload.transferId,
                               SetSlot(held, payload.chunkIndex, payload.chunk))]
          /\ incomingFiles' =
                [incomingFiles EXCEPT
                    ![c] = [k \in DOMAIN @ |->
                       IF @[k].meta.transferId # payload.transferId
                       THEN @[k]
                       ELSE [@[k] EXCEPT
                               !.receivedBytes = @ + ByteLength(payload.chunk),
                               !.receivedChunks = @ + 1,
                               !.status = "receiving"]]]
    /\ Received(c)
OnFileChunk(c) ==
    /\ InboxHead(c, "file:chunk")
    /\ LET payload == Head(inbox[c]).payload.body
       IN IF payload.transferId \notin DOMAIN incomingBuffers[c]
          THEN UNCHANGED <<incomingFiles, incomingBuffers>>
          ELSE /\ incomingBuffers' =
                     [incomingBuffers EXCEPT
                         ![c][payload.transferId] =
                             SetSlot(@, payload.chunkIndex, payload.chunk)]
               /\ incomingFiles' =
                     [incomingFiles EXCEPT
                         ![c] = [k \in DOMAIN @ |->
                            IF @[k].meta.transferId # payload.transferId
                            THEN @[k]
                            ELSE [@[k] EXCEPT
                                    !.receivedBytes = @ + ByteLength(payload.chunk),
                                    !.receivedChunks = @ + 1,
                                    !.status = "receiving"]]]
    /\ Received(c)

\* socket.on("file:complete")
OnFileCompleteMutSweep(c) ==
    /\ InboxHead(c, "file:complete")
    /\ LET payload == Head(inbox[c]).payload.body
       IN IF payload.transferId \notin DOMAIN incomingBuffers[c]
          THEN UNCHANGED <<incomingFiles, incomingBuffers>>
          ELSE LET buffers == incomingBuffers[c][payload.transferId]
                   orderedChunks == SelectSeq(buffers, Truthy)
                   blob == BlobOf(orderedChunks)
               IN /\ incomingFiles' =
                        [incomingFiles EXCEPT
                            ![c] = [k \in DOMAIN @ |->
                               IF @[k].meta.transferId = payload.transferId
                               THEN [@[k] EXCEPT
                                       !.status = "complete",
                                       !.receivedBytes = incomingFiles[c][k].meta.size,
                                       !.receivedChunks =
                                           incomingFiles[c][k].meta.totalChunks,
                                       !.hasBlob = TRUE,
                                       !.blob = blob]
                               ELSE @[k]]]
                  /\ incomingBuffers' = [incomingBuffers EXCEPT ![c] = <<>>]
    /\ Received(c)
OnFileCompleteMutKeepCounters(c) ==
    /\ InboxHead(c, "file:complete")
    /\ LET payload == Head(inbox[c]).payload.body
       IN IF payload.transferId \notin DOMAIN incomingBuffers[c]
          THEN UNCHANGED <<incomingFiles, incomingBuffers>>
          ELSE LET buffers == incomingBuffers[c][payload.transferId]
                   orderedChunks == SelectSeq(buffers, Truthy)
                   blob == BlobOf(orderedChunks)
               IN /\ incomingFiles' =
                        [incomingFiles EXCEPT
                            ![c] = [k \in DOMAIN @ |->
                               IF @[k].meta.transferId = payload.transferId
                               THEN [@[k] EXCEPT
                                       !.status = "complete",
                                       !.hasBlob = TRUE,
                                       !.blob = blob]
                               ELSE @[k]]]
                  /\ incomingBuffers' =
                        [incomingBuffers EXCEPT
                            ![c] = Remove(@, payload.transferId)]
    /\ Received(c)
OnFileCompleteMutNoGuard(c) ==
    /\ InboxHead(c, "file:complete")
    /\ LET payload == Head(inbox[c]).payload.body
           buffers == IF payload.transferId \in DOMAIN incomingBuffers[c]
                      THEN incomingBuffers[c][payload.transferId] ELSE <<>>
           orderedChunks == SelectSeq(buffers, Truthy)
           blob == BlobOf(orderedChunks)
       IN /\ incomingFiles' =
                [incomingFiles EXCEPT
                    ![c] = [k \in DOMAIN @ |->
                       IF @[k].meta.transferId = payload.transferId
                       THEN [@[k] EXCEPT
                               !.status = "complete",
                               !.receivedBytes = incomingFiles[c][k].meta.size,
                               !.receivedChunks =
                                   incomingFiles[c][k].meta.totalChunks,
                               !.hasBlob = TRUE,
                               !.blob = blob]
                       ELSE @[k]]]
          /\ incomingBuffers' =
                [incomingBuffers EXCEPT ![c] = Remove(@, payload.transferId)]
    /\ Received(c)
OnFileComplete(c) ==
    /\ InboxHead(c, "file:complete")
    /\ LET payload == Head(inbox[c]).payload.body
       IN IF payload.transferId \notin DOMAIN incomingBuffers[c]
          THEN UNCHANGED <<incomingFiles, incomingBuffers>>
          ELSE LET buffers == incomingBuffers[c][payload.transferId]
                   orderedChunks == SelectSeq(buffers, Truthy)
                   blob == BlobOf(orderedChunks)
               IN /\ incomingFiles' =
                        [incomingFiles EXCEPT
                            ![c] = [k \in DOMAIN @ |->
                               IF @[k].meta.transferId = payload.transferId
                               THEN [@[k] EXCEPT
                                       !.status = "complete",
                                       !.receivedBytes = incomingFiles[c][k].meta.size,
                                       !.receivedChunks =
                                           incomingFiles[c][k].meta.totalChunks,
                                       !.hasBlob = TRUE,
                                       !.blob = blob]
                               ELSE @[k]]]
                  /\ incomingBuffers' =
                        [incomingBuffers EXCEPT
                            ![c] = Remove(@, payload.transferId)]
    /\ Received(c)

\* socket.on("file:error")
OnFileErrorMutKeepBuffer(c) ==
    /\ InboxHead(c, "file:error")
    /\ LET payload == Head(inbox[c]).payload.body
       IN /\ incomingFiles' =
                [incomingFiles EXCEPT
                    ![c] = [k \in DOMAIN @ |->
                       IF @[k].meta.transferId = payload.transferId
                       THEN [@[k] EXCEPT
                               !.status = "error",
                               !.errorMessage =
                                   IF payload.message = ""
                                   THEN "Terjadi kesalahan saat menerima berkas."
                                   ELSE payload.message]
                       ELSE @[k]]]
          /\ UNCHANGED incomingBuffers
    /\ Received(c)
OnFileErrorMutAll(c) ==
    /\ InboxHead(c, "file:error")
    /\ LET payload == Head(inbox[c]).payload.body
       IN /\ incomingFiles' =
                [incomingFiles EXCEPT
                    ![c] = [k \in DOMAIN @ |->
                       [@[k] EXCEPT
                          !.status = "error",
                          !.errorMessage =
                              IF payload.message = ""
                              THEN "Terjadi kesalahan saat menerima berkas."
                              ELSE payload.message]]]
          /\ incomingBuffers' =
                [incomingBuffers EXCEPT ![c] = Remove(@, payload.transferId)]
    /\ Received(c)
OnFileError(c) ==
    /\ InboxHead(c, "file:error")
    /\ LET payload == Head(inbox[c]).payload.body
       IN /\ incomingFiles' =
                [incomingFiles EXCEPT
                    ![c] = [k \in DOMAIN @ |->
                       IF @[k].meta.transferId = payload.transferId
                       THEN [@[k] EXCEPT
                               !.status = "error",
                               !.errorMessage =
                                   IF payload.message = ""
                                   THEN "Terjadi kesalahan saat menerima berkas."
                                   ELSE payload.message]
                       ELSE @[k]]]
          /\ incomingBuffers' =
                [incomingBuffers EXCEPT ![c] = Remove(@, payload.transferId)]
    /\ Received(c)

\* ------------------------------------------------ station: connecting
\* resetTransfers: the lists, the notice and the slot buffers of the
\* station are emptied.  sendFile calls in progress are not stopped.
\* handleConnect: the socket in use is disconnected, which the relay
\* sees as a closed transport, and its listeners hear nothing more; the
\* station is reset and a new socket starts to connect.  The relay reads
\* what a socket sent before it reads that the socket has closed, so the
\* step is taken when the requests of the old socket have been handled.
HandleConnect(c) ==
    /\ c \in attached
    /\ Len(EffectiveRoomId) > 0
    /\ toRelay[c] = <<>>
    /\ IF c \in connected
       THEN LET cleaned == [rooms EXCEPT ![c] = {}]
                joinedRooms == {r \in cleaned[c] : r # SocketId(c)}
                out == PeerLeftAll(cleaned, c, SeqOfRooms(joinedRooms))
            IN /\ connected' = connected \ {c}
               /\ rooms' = cleaned
               /\ lastReq' = Req(c, "disconnect", UndefinedPayload)
               /\ preRooms' = rooms
               /\ emitted' = out
               /\ inbox' = [Deliver(inbox, out) EXCEPT ![c] = <<>>]
       ELSE /\ inbox' = [inbox EXCEPT ![c] = <<>>]
            /\ UNCHANGED <<connected, rooms, lastReq, preRooms, emitted>>
    /\ outgoingFiles' = [outgoingFiles EXCEPT ![c] = <<>>]
    /\ incomingFiles' = [incomingFiles EXCEPT ![c] = <<>>]
    /\ queuedFiles' = [queuedFiles EXCEPT ![c] = <<>>]
    /\ folderActionMessage' = [folderActionMessage EXCEPT ![c] = ""]
    /\ incomingBuffers' = [incomingBuffers EXCEPT ![c] = <<>>]
    /\ lastMsg' = NoMsg
    /\ lastSave' = NoSave
    /\ alone' = [alone EXCEPT ![c] = <<>>]
    /\ UNCHANGED <<missed, noteVars, thrown, attached, toRelay, sendRuns, sendTasks, nextId,
                   origin, emitThrows>>

\* socket.on("connect"): the relay has accepted the new socket and the
\* station asks to join its room.
OnConnect(c) ==
    /\ c \in attached
    /\ Connect(c)
    /\ toRelay' = [toRelay EXCEPT ![c] =
                     Append(@, Req(c, "room:join",
                                   ObjectPayload(StrVal(EffectiveRoomId),
                                                 NoBody)))]
    /\ UNCHANGED <<attached, stationVars>>

\* ------------------------------------------------ requests off the wire
RelayHead(c, evs) ==
    /\ toRelay[c] # <<>>
    /\ Head(toRelay[c]).event \in evs

\* What the stations missed, after the relay handled ev of connection c:
\* a file:meta the relay forwards into a room is missed by the stations
\* that are not in that room, and reaches the others.
MissedAfter(c, ev, payload) ==
    IF ev = "file:meta" /\ ValidRoomId(RoomIdOf(payload))
    THEN [d \in Conns |->
            IF d = c THEN missed[d]
            ELSE IF RoomIdOf(payload).str \in rooms[d]
            THEN missed[d] \ {payload.body.transferId}
            ELSE missed[d] \cup {payload.body.transferId}]
    ELSE missed

Relayed(c) ==
    /\ toRelay' = [toRelay EXCEPT ![c] = Tail(@)]
    /\ missed' = MissedAfter(c, Head(toRelay[c]).event, Head(toRelay[c]).payload)
    /\ UNCHANGED <<attached, senderVars, heldVars, noteVars>>

NetRoomJoin ==
    \E c \in Conns :
        /\ RelayHead(c, {"room:join"})
        /\ RoomJoin(c, Head(toRelay[c]).payload)
        /\ Relayed(c)

NetFileRelay ==
    \E c \in Conns :
        /\ RelayHead(c, FileEvents)
        /\ FileRelay(c, Head(toRelay[c]).event, Head(toRelay[c]).payload)
        /\ Relayed(c)

\* ------------------------------------------------------ files to send
\* Sizes around the chunk boundaries: empty, one byte, one full chunk,
\* MaxChunks chunks with a one-byte tail, MaxChunks full chunks.
Sizes ==
    {0, 1, FILE_CHUNK_SIZE,
     (MaxChunks - 1) * FILE_CHUNK_SIZE + 1, MaxChunks * FILE_CHUNK_SIZE}

\* A picked file: its queue id, its name, its size and no relative path
\* ("" stands for undefined).
QueuedFile(id, size) ==
    [id |-> id, name |-> "file", size |-> size, relativePath |-> ""]

\* The queues of 1..n picked files.
Queues(n) ==
    UNION {{[k \in 1..len |-> QueuedFile(k, sz[k])] : sz \in [1..len -> Sizes]} :
           len \in 1..n}

\* An empty file followed by a file that ends in a one-byte chunk.
MixedQueue ==
    <<QueuedFile(1, 0), QueuedFile(2, (MaxChunks - 1) * FILE_CHUNK_SIZE + 1)>>

\* More files than one batch holds: the first has MaxChunks chunks, the
\* others one byte.
BatchQueue ==
    [k \in 1..(PARALLEL_LIMIT + 2) |->
        QueuedFile(k, IF k = 1 THEN (MaxChunks - 1) * FILE_CHUNK_SIZE + 1 ELSE 1)]

\* ------------------------------------- one station sending, nobody relays
InitSend ==
    /\ connected = {1}
    /\ rooms = [c \in Conns |-> IF c = 1 THEN {SocketId(c)} ELSE {}]
    /\ thrown = {}
    /\ lastReq = NoReq
    /\ preRooms = [c \in Conns |-> {}]
    /\ emitted = <<>>
    /\ attached = {1}
    /\ toRelay = [c \in Conns |-> <<>>]
    /\ inbox = [c \in Conns |-> <<>>]
    /\ outgoingFiles = [c \in Conns |-> <<>>]
    /\ sendRuns = [c \in Conns |-> {}]
    /\ sendTasks = [c \in Conns |-> {}]
    /\ incomingFiles = [c \in Conns |-> <<>>]
    /\ incomingBuffers = [c \in Conns |-> <<>>]
    /\ nextId = 1
    /\ origin = <<>>
    /\ emitThrows = {}
    /\ folderActionMessage = [c \in Conns |-> ""]
    /\ lastMsg = NoMsg
    /\ lastSave = NoSave
    /\ alone = [c \in Conns |-> <<>>]
    /\ missed = [c \in Conns |-> {}]
    /\ NotepadIdle
    /\ \E q \in Queues(MaxQueue) \cup {BatchQueue} :
          queuedFiles = [c \in Conns |-> IF c = 1 THEN q ELSE <<>>]

\* The user presses "send" while no send is in progress.
SendWhenIdle ==
    \E c \in Conns : sendRuns[c] = {} /\ HandleSendQueuedFiles(c)

ChunkReadResolves ==
    \E c \in Conns : \E task \in sendTasks[c] : ChunkRead(c, task)

ChunkReadRejects ==
    \E c \in Conns : \E task \in sendTasks[c] : ChunkReadFails(c, task)

NextSend ==
    \/ SendWhenIdle
    \/ ChunkReadResolves
    \/ ChunkReadRejects

SpecSend == InitSend /\ [][NextSend]_vars

\* Every read of a chunk that a sendFile awaits resolves or rejects.
ReadsSettle == WF_vars(ChunkReadResolves \/ ChunkReadRejects)

\* The runs that are followed to their end: a queue of two batches and
\* a queue with an empty file.
InitSendFair ==
    /\ InitSend
    /\ queuedFiles[1] \in {BatchQueue, MixedQueue}

SpecSendFair == InitSendFair /\ [][NextSend]_vars /\ ReadsSettle

\* -------------------------------- one station: picking files and sending
\* Files the user picks: with the file input (no webkitRelativePath) or
\* with the folder input.
PlainFile == [name |-> "a.txt", webkitRelativePath |-> "", size |-> 1]
LogFile == [name |-> "b.log", webkitRelativePath |-> "", size |-> 1]
FolderFile == [name |-> "c", webkitRelativePath |-> "d/c", size |-> 0]
GitFile == [name |-> "HEAD", webkitRelativePath |-> "d/.git/HEAD", size |-> 1]

PickLists ==
    {<<>>, <<PlainFile>>, <<LogFile>>, <<PlainFile, LogFile>>,
     <<FolderFile, GitFile>>, <<GitFile, FolderFile>>}

InitQueue ==
    /\ connected = {1}
    /\ rooms = [c \in Conns |-> IF c = 1 THEN {SocketId(c)} ELSE {}]
    /\ thrown = {}
    /\ lastReq = NoReq
    /\ preRooms = [c \in Conns |-> {}]
    /\ emitted = <<>>
    /\ attached = {1}
    /\ toRelay = [c \in Conns |-> <<>>]
    /\ inbox = [c \in Conns |-> <<>>]
    /\ StationIdle

\* The user picks files; the queue and the identifiers stay within the
\* bounds.
UserEnqueues ==
    \E c \in Conns, fileList \in PickLists :
        /\ Len(queuedFiles[c]) < MaxQueue
        /\ nextId <= 2 * MaxQueue + 1
        /\ EnqueueFiles(c, fileList)

NextQueue ==
    \/ UserEnqueues
    \/ SendWhenIdle
    \/ ChunkReadResolves
    \/ ChunkReadRejects

SpecQueue == InitQueue /\ [][NextQueue]_vars

\* ------------------------------------- a sender that presses send again
\* The send button is disabled while the station is not connected or the
\* queue is empty, and at no other time: it can be pressed while earlier
\* calls of handleSendQueuedFiles are still in their loops.
SendAgain ==
    \E c \in Conns :
        /\ Cardinality(sendRuns[c]) < MaxRuns
        /\ HandleSendQueuedFiles(c)

InitResend ==
    /\ connected = {1}
    /\ rooms = [c \in Conns |-> IF c = 1 THEN {SocketId(c)} ELSE {}]
    /\ thrown = {}
    /\ lastReq = NoReq
    /\ preRooms = [c \in Conns |-> {}]
    /\ emitted = <<>>
    /\ attached = {1}
    /\ toRelay = [c \in Conns |-> <<>>]
    /\ inbox = [c \in Conns |-> <<>>]
    /\ outgoingFiles = [c \in Conns |-> <<>>]
    /\ sendRuns = [c \in Conns |-> {}]
    /\ sendTasks = [c \in Conns |-> {}]
    /\ incomingFiles = [c \in Conns |-> <<>>]
    /\ incomingBuffers = [c \in Conns |-> <<>>]
    /\ nextId = 1
    /\ origin = <<>>
    /\ emitThrows = {}
    /\ folderActionMessage = [c \in Conns |-> ""]
    /\ lastMsg = NoMsg
    /\ lastSave = NoSave
    /\ alone = [c \in Conns |-> <<>>]
    /\ missed = [c \in Conns |-> {}]
    /\ NotepadIdle
    /\ \E q \in Queues(MaxQueue) :
          queuedFiles = [c \in Conns |-> IF c = 1 THEN q ELSE <<>>]

NextResend ==
    \/ SendAgain
    \/ ChunkReadResolves

SpecResend == InitResend /\ [][NextResend]_vars

\* ------------------------------------------------------------ notepad
\* schedulePersist(id, patch): the patch is merged into the one pending
\* patch of the component, the one timer is cleared and set again with a
\* callback that holds this id.
SchedulePersist(id, field, value) ==
    /\ pendingPatchRef' = Put(pendingPatchRef, field, value)
    /\ saveTimeoutRef' = [armed |-> TRUE, id |-> id]

\* broadcast(event, payload): socketRef is set by the mount effect.
Broadcast(field, id, value) ==
    noteRequests' = Append(noteRequests,
                           [kind |-> "note:" \o field, id |-> id,
                            payload |-> Put(<<>>, field, value)])

NotepadOnly == UNCHANGED <<relayVars, netVars, senderVars, heldVars, missed>>

\* handleTitleChange(value)
HandleTitleChange(value) ==
    /\ selectedNoteId # NoNote
    /\ titleInput' = value
    /\ notes' = [notes EXCEPT ![selectedNoteId].title = value]
    /\ Broadcast("title", selectedNoteId, value)
    /\ SchedulePersist(selectedNoteId, "title", value)
    /\ UNCHANGED <<selectedNoteId, contentInput, notePatching>>
    /\ NotepadOnly

\* handleContentChange(value)
HandleContentChange(value) ==
    /\ selectedNoteId # NoNote
    /\ contentInput' = value
    /\ notes' = [notes EXCEPT ![selectedNoteId].content = value]
    /\ Broadcast("content", selectedNoteId, value)
    /\ SchedulePersist(selectedNoteId, "content", value)
    /\ UNCHANGED <<selectedNoteId, titleInput, notePatching>>
    /\ NotepadOnly

\* handleSelectNote(note).  When the selection changes, the effect that
\* depends on selectedNoteId is cleaned up and run again: its cleanup
\* clears the debounce timer and shuts the socket down, and its body
\* opens the socket again.  pendingPatchRef is not touched.
HandleSelectNote(id) ==
    /\ id \in NoteIds
    /\ selectedNoteId' = id
    /\ titleInput' = notes[id].title
    /\ contentInput' = notes[id].content
    /\ saveTimeoutRef' = IF id # selectedNoteId
                         THEN [saveTimeoutRef EXCEPT !.armed = FALSE]
                         ELSE saveTimeoutRef
    /\ UNCHANGED <<notes, pendingPatchRef, noteRequests, notePatching>>
    /\ NotepadOnly

\* The callback of setTimeout, SAVE_DEBOUNCE_MS after the last
\* schedulePersist: it takes the pending patch, empties it and, unless
\* the patch is empty, marks the note of its id as saving and sends the
\* patch to /api/notes/<id>.
SaveTimeout ==
    /\ saveTimeoutRef.armed
    /\ saveTimeoutRef' = [saveTimeoutRef EXCEPT !.armed = FALSE]
    /\ pendingPatchRef' = <<>>
    /\ IF DOMAIN pendingPatchRef = {}
       THEN UNCHANGED <<notes, noteRequests, notePatching>>
       ELSE /\ notes' = [notes EXCEPT ![saveTimeoutRef.id].isSaving = TRUE]
            /\ noteRequests' =
                  Append(noteRequests,
                         [kind |-> "PATCH", id |-> saveTimeoutRef.id,
                          payload |-> pendingPatchRef])
            /\ notePatching' = [notePatching EXCEPT ![saveTimeoutRef.id] = @ + 1]
    /\ UNCHANGED <<selectedNoteId, titleInput, contentInput>>
    /\ NotepadOnly

\* await fetch(...) settles, with any response or with an error:
\* finally { markSaving(id, false) }
PatchSettles(id) ==
    /\ notePatching[id] > 0
    /\ notePatching' = [notePatching EXCEPT ![id] = @ - 1]
    /\ notes' = [notes EXCEPT ![id].isSaving = FALSE]
    /\ UNCHANGED <<selectedNoteId, titleInput, contentInput, pendingPatchRef,
                   saveTimeoutRef, noteRequests>>
    /\ NotepadOnly

\* The texts typed in one run stay within MaxEdits.
NoteEdits ==
    {i \in DOMAIN noteRequests : noteRequests[i].kind # "PATCH"}

UserEditsTitle ==
    \E value \in Texts :
        Cardinality(NoteEdits) < MaxEdits /\ HandleTitleChange(value)

UserEditsContent ==
    \E value \in Texts :
        Cardinality(NoteEdits) < MaxEdits /\ HandleContentChange(value)

UserSelectsNote == \E id \in NoteIds : HandleSelectNote(id)

PatchResponse == \E id \in NoteIds : PatchSettles(id)

InitNotes == InitQueue

NextNotes ==
    \/ UserEditsTitle
    \/ UserEditsContent
    \/ UserSelectsNote
    \/ SaveTimeout
    \/ PatchResponse

SpecNotes == InitNotes /\ [][NextNotes]_vars

\* ------------------------------------ a sender that edits its queue
\* "Hapus" next to a queued file:
\* setQueuedFiles(prev => prev.filter(item => item.id !== queued.id))
RemoveQueued(c, id) ==
    /\ c \in attached
    /\ \E k \in DOMAIN queuedFiles[c] : queuedFiles[c][k].id = id
    /\ LET Keep(item) == item.id # id
       IN queuedFiles' = [queuedFiles EXCEPT ![c] = SelectSeq(@, Keep)]
    /\ UNCHANGED <<relayVars, netVars, receiverVars, outgoingFiles, sendRuns,
                   sendTasks, nextId, origin, emitThrows, folderActionMessage>>

\* "Bersihkan Antrian": setQueuedFiles([])
ClearQueue(c) ==
    /\ c \in attached
    /\ queuedFiles' = [queuedFiles EXCEPT ![c] = <<>>]
    /\ UNCHANGED <<relayVars, netVars, receiverVars, outgoingFiles, sendRuns,
                   sendTasks, nextId, origin, emitThrows, folderActionMessage>>

UserRemoves ==
    \E c \in Conns : \E k \in DOMAIN queuedFiles[c] :
        RemoveQueued(c, queuedFiles[c][k].id)

\* The list with the button is rendered whatever the queue holds; the
\* press that changes nothing is left out.
UserClears == \E c \in Conns : queuedFiles[c] # <<>> /\ ClearQueue(c)

NextQueueEdit ==
    \/ SendWhenIdle
    \/ ChunkReadResolves
    \/ UserRemoves
    \/ UserClears

SpecQueueEdit == InitSend /\ [][NextQueueEdit]_vars

\* ------------------------- one station sending while some emissions fail
\* The emissions of sendFile before its catch block.
GuardedEvents == {"file:meta", "file:chunk", "file:complete"}

EmissionFaults ==
    {[file |-> f, event |-> ev] : f \in DOMAIN BatchQueue, ev \in GuardedEvents}

\* socket.emit raises an error on one or two emissions of the run.
InitSendFaulty ==
    /\ connected = {1}
    /\ rooms = [c \in Conns |-> IF c = 1 THEN {SocketId(c)} ELSE {}]
    /\ thrown = {}
    /\ lastReq = NoReq
    /\ preRooms = [c \in Conns |-> {}]
    /\ emitted = <<>>
    /\ attached = {1}
    /\ toRelay = [c \in Conns |-> <<>>]
    /\ inbox = [c \in Conns |-> <<>>]
    /\ outgoingFiles = [c \in Conns |-> <<>>]
    /\ sendRuns = [c \in Conns |-> {}]
    /\ sendTasks = [c \in Conns |-> {}]
    /\ incomingFiles = [c \in Conns |-> <<>>]
    /\ incomingBuffers = [c \in Conns |-> <<>>]
    /\ nextId = 1
    /\ origin = <<>>
    /\ lastMsg = NoMsg
    /\ lastSave = NoSave
    /\ alone = [c \in Conns |-> <<>>]
    /\ missed = [c \in Conns |-> {}]
    /\ NotepadIdle
    /\ folderActionMessage = [c \in Conns |-> ""]
    /\ queuedFiles = [c \in Conns |-> IF c = 1 THEN BatchQueue ELSE <<>>]
    /\ emitThrows \in {F \in SUBSET EmissionFaults : Cardinality(F) \in 1..2}

\* The user presses "send" once.
SendOnce ==
    \E c \in Conns : outgoingFiles[c] = <<>> /\ HandleSendQueuedFiles(c)

NextSendFaulty ==
    \/ SendOnce
    \/ ChunkReadResolves
    \/ ChunkReadRejects

SpecSendFaulty == InitSendFaulty /\ [][NextSendFaulty]_vars

\* --------------------- sender, relay and receiver over a loss-free wire
\* Both stations have connected and emitted room:join; the relay has
\* handled the sender's.
InitTransfer ==
    /\ connected = {1, 2}
    /\ rooms = [c \in Conns |->
                  IF c = 1 THEN {SocketId(c), EffectiveRoomId}
                  ELSE IF c = 2 THEN {SocketId(c)} ELSE {}]
    /\ thrown = {}
    /\ lastReq = NoReq
    /\ preRooms = [c \in Conns |-> {}]
    /\ emitted = <<>>
    /\ attached = {1, 2}
    /\ toRelay = [c \in Conns |->
                    IF c = 2
                    THEN <<Req(c, "room:join",
                               ObjectPayload(StrVal(EffectiveRoomId), NoBody))>>
                    ELSE <<>>]
    /\ inbox = [c \in Conns |-> <<>>]
    /\ outgoingFiles = [c \in Conns |-> <<>>]
    /\ sendRuns = [c \in Conns |-> {}]
    /\ sendTasks = [c \in Conns |-> {}]
    /\ incomingFiles = [c \in Conns |-> <<>>]
    /\ incomingBuffers = [c \in Conns |-> <<>>]
    /\ nextId = 1
    /\ origin = <<>>
    /\ emitThrows = {}
    /\ folderActionMessage = [c \in Conns |-> ""]
    /\ lastMsg = NoMsg
    /\ lastSave = NoSave
    /\ alone = [c \in Conns |-> <<>>]
    /\ missed = [c \in Conns |-> {}]
    /\ NotepadIdle
    /\ \E q \in Queues(MaxFiles) \cup {MixedQueue} :
          queuedFiles = [c \in Conns |-> IF c = 1 THEN q ELSE <<>>]

ReceiveNotice == \E c \in Conns : OnNotice(c)
ReceiveFileMeta == \E c \in Conns : OnFileMeta(c)
ReceiveFileChunk == \E c \in Conns : OnFileChunk(c)
ReceiveFileComplete == \E c \in Conns : OnFileComplete(c)

NextTransfer ==
    \/ SendWhenIdle
    \/ ChunkReadResolves
    \/ NetRoomJoin
    \/ NetFileRelay
    \/ ReceiveNotice
    \/ ReceiveFileMeta
    \/ ReceiveFileChunk
    \/ ReceiveFileComplete

SpecTransfer == InitTransfer /\ [][NextTransfer]_vars

\* ----------------------- a station receiving what a peer of its room sends
\* Connection 1 is any client of the relay, connection 2 a station; both
\* are in the room.  The peer sends file:* messages in any order, with
\* any of these contents.
PeerTransferIds == {1, 2}

\* A meta for one chunk and, for transfer 1, a meta for MaxChunks chunks.
PeerMetas(t) ==
    {MetaBody([transferId |-> t, size |-> sz, relativePath |-> "",
               totalChunks |-> TotalChunks(sz)]) :
        sz \in IF t = 1 THEN {1, (MaxChunks - 1) * FILE_CHUNK_SIZE + 1}
               ELSE {1}}

\* Chunks of a file of MaxChunks * FILE_CHUNK_SIZE + 1 bytes: chunks
\* 0..MaxChunks for transfer 1, where the last index is past the end of
\* every buffer a meta allocates, and chunk 0 for the other transfers.
\* Transfer 1 also gets a chunk 0 that holds one byte only, so that two
\* chunks for one index differ.
PeerChunks(t) ==
    {[NoBody EXCEPT
        !.transferId = t, !.chunkIndex = i,
        !.chunk = Slice(t, MaxChunks * FILE_CHUNK_SIZE + 1,
                        i * FILE_CHUNK_SIZE, (i + 1) * FILE_CHUNK_SIZE)] :
        i \in IF t = 1 THEN 0..MaxChunks ELSE {0}}
    \cup (IF t = 1
          THEN {[NoBody EXCEPT !.transferId = t, !.chunkIndex = 0,
                               !.chunk = Slice(t, 1, 0, FILE_CHUNK_SIZE)]}
          ELSE {})

\* A file:error carries a message for transfer 1 and none ("") for the
\* other transfers.
PeerBodies(ev, t) ==
    IF ev = "file:meta" THEN PeerMetas(t)
    ELSE IF ev = "file:chunk" THEN PeerChunks(t)
    ELSE IF ev = "file:complete" THEN {[NoBody EXCEPT !.transferId = t]}
    ELSE {[NoBody EXCEPT !.transferId = t,
                         !.message = IF t = 1 THEN "boom" ELSE ""]}

InitReceive ==
    /\ connected = {1, 2}
    /\ rooms = [c \in Conns |->
                  IF c \in {1, 2} THEN {SocketId(c), EffectiveRoomId} ELSE {}]
    /\ thrown = {}
    /\ lastReq = NoReq
    /\ preRooms = [c \in Conns |-> {}]
    /\ emitted = <<>>
    /\ attached = {2}
    /\ toRelay = [c \in Conns |-> <<>>]
    /\ inbox = [c \in Conns |-> <<>>]
    /\ StationIdle

\* The peer sends the next message once the station has handled the
\* last; a transfer takes at most MaxChunks chunk messages per meta.
PeerSends ==
    \E ev \in FileEvents, t \in PeerTransferIds :
        \E body \in PeerBodies(ev, t) :
            /\ inbox[2] = <<>>
            /\ ev = "file:chunk" =>
                  \A k \in DOMAIN incomingFiles[2] :
                      incomingFiles[2][k].meta.transferId = t
                      => incomingFiles[2][k].receivedChunks < MaxChunks
            /\ FileRelay(1, ev, ObjectPayload(StrVal(EffectiveRoomId), body))
            /\ missed' = MissedAfter(1, ev, ObjectPayload(StrVal(EffectiveRoomId),
                                                          body))
            /\ UNCHANGED <<attached, toRelay, senderVars, heldVars, noteVars>>

ReceiveFileError == \E c \in Conns : OnFileError(c)

\* The user presses "connect" again; the new socket connects and joins.
UserConnects == \E c \in Conns : HandleConnect(c)

SocketConnects == \E c \in Conns : OnConnect(c)

NextReceive ==
    \/ PeerSends
    \/ ReceiveFileMeta
    \/ ReceiveFileChunk
    \/ ReceiveFileComplete
    \/ ReceiveFileError
    \/ UserConnects
    \/ SocketConnects
    \/ NetRoomJoin
    \/ ReceiveNotice

SpecReceive == InitReceive /\ [][NextReceive]_vars

\* ----------------------------------------------------- station: folders
\* str.split("/")
RECURSIVE Split(_)
Split(str) ==
    IF ~Includes(str, "/") THEN <<str>>
    ELSE LET i == CHOOSE n \in 1..Len(str) :
                     /\ SubSeq(str, n, n) = "/"
                     /\ \A j \in 1..(n - 1) : SubSeq(str, j, j) # "/"
         IN <<SubSeq(str, 1, i - 1)>> \o Split(SubSeq(str, i + 1, Len(str)))

\* const [rootFolder] = relativePath.split("/"); "" when the transfer
\* has no relativePath or the path starts with "/": no group then.
RootFolderMutLast(transfer) ==
    LET relativePath == transfer.meta.relativePath
    IN IF relativePath = "" THEN ""
       ELSE Split(relativePath)[Len(Split(relativePath))]
RootFolder(transfer) ==
    LET relativePath == transfer.meta.relativePath
    IN IF relativePath = "" THEN "" ELSE Split(relativePath)[1]

\* The keys of the groups map in insertion order.
RECURSIVE GroupNames(_, _)
GroupNames(transfers, seen) ==
    IF transfers = <<>> THEN <<>>
    ELSE LET rootFolder == RootFolder(Head(transfers))
         IN IF rootFolder = "" \/ rootFolder \in seen
            THEN GroupNames(Tail(transfers), seen)
            ELSE <<rootFolder>>
                 \o GroupNames(Tail(transfers), seen \cup {rootFolder})

\* folderGroups, recomputed from incomingFiles
FolderGroups(transfers) ==
    LET names == GroupNames(transfers, {})
    IN [i \in 1..Len(names) |->
          LET Member(transfer) == RootFolder(transfer) = names[i]
          IN [folderName |-> names[i],
              files |-> SelectSeq(transfers, Member)]]

\* const ready = group.files.every(file => file.status === "complete" && file.blob)
ReadyMutSome(group) ==
    \E i \in DOMAIN group.files :
        group.files[i].status = "complete" /\ group.files[i].hasBlob
Ready(group) ==
    \A i \in DOMAIN group.files :
        group.files[i].status = "complete" /\ group.files[i].hasBlob

\* The message of an error raised while a folder is saved.
SaveError == "failed"

\* The file written for a transfer: the directories and the file name
\* from relativePath.split("/").filter(Boolean), and the bytes.  A
\* member of a group has a relativePath, so that meta.name is not used.
WrittenFile(transfer) ==
    LET NonEmpty(segment) == segment # ""
        segments == SelectSeq(Split(transfer.meta.relativePath), NonEmpty)
    IN [directories |-> SubSeq(segments, 1, Len(segments) - 1),
        fileName |-> segments[Len(segments)],
        blob |-> transfer.blob]

\* zip.file(relativePath, transfer.blob) for the members with a blob
ZipEntries(files) ==
    LET HasBlob(transfer) == transfer.hasBlob
        withBlob == SelectSeq(files, HasBlob)
    IN [i \in DOMAIN withBlob |->
          [directories |-> <<>>,
           fileName |-> withBlob[i].meta.relativePath,
           blob |-> withBlob[i].blob]]

Saved(c, folderName, picker, archive, written, message) ==
    /\ lastSave' = [folderName |-> folderName, picker |-> picker,
                    archive |-> archive, written |-> written]
    /\ folderActionMessage' = [folderActionMessage EXCEPT ![c] = message]

\* The part of handleSaveFolder that writes, in a browser with or
\* without showDirectoryPicker.  n says how it ends: n < 0 the user
\* cancels the picker, n = Len(files) everything is written, otherwise
\* an error is raised after n files were written (without the picker:
\* before the archive is downloaded).
SaveFiles(c, folderName, files) ==
    \E hasDirectoryPicker \in BOOLEAN, n \in -1..Len(files) :
        IF ~hasDirectoryPicker
        THEN IF n = Len(files)
             THEN Saved(c, folderName, FALSE, TRUE, ZipEntries(files),
                        "Folder \"" \o folderName
                        \o "\" dikemas sebagai arsip ZIP.")
             ELSE /\ n = 0
                  /\ Saved(c, folderName, FALSE, FALSE, <<>>, SaveError)
        ELSE IF n < 0
        THEN Saved(c, folderName, TRUE, FALSE, <<>>,
                   "Penyimpanan folder dibatalkan.")
        ELSE Saved(c, folderName, TRUE, FALSE,
                   [i \in 1..n |-> WrittenFile(files[i])],
                   IF n = Len(files)
                   THEN "Folder \"" \o folderName \o "\" berhasil disimpan."
                   ELSE SaveError)

\* handleSaveFolder(folderName)
HandleSaveFolderMutNoCheck(c, folderName) ==
    /\ c \in attached
    /\ \E folderGroups \in {FolderGroups(incomingFiles[c])} :
          LET found == {i \in DOMAIN folderGroups :
                           folderGroups[i].folderName = folderName}
          IN IF found = {}
             THEN Saved(c, folderName, FALSE, FALSE, <<>>,
                        "Folder tidak ditemukan dalam antrian penerimaan.")
             ELSE SaveFiles(c, folderName,
                            folderGroups[CHOOSE i \in found : TRUE].files)
    /\ lastMsg' = [to |-> c, event |-> "save", body |-> NoBody,
                   files |-> incomingFiles[c],
                   buffers |-> incomingBuffers[c]]
    /\ UNCHANGED <<relayVars, netVars, incomingFiles, incomingBuffers,
                   queuedFiles, outgoingFiles, sendRuns, sendTasks, nextId,
                   origin, emitThrows, alone, missed, noteVars>>
HandleSaveFolder(c, folderName) ==
    /\ c \in attached
    /\ \E folderGroups \in {FolderGroups(incomingFiles[c])} :
          LET found == {i \in DOMAIN folderGroups :
                           folderGroups[i].folderName = folderName}
          IN IF found = {}
             THEN Saved(c, folderName, FALSE, FALSE, <<>>,
                        "Folder tidak ditemukan dalam antrian penerimaan.")
             ELSE LET targetGroup == folderGroups[CHOOSE i \in found : TRUE]
                      incomplete ==
                          \E i \in DOMAIN targetGroup.files :
                              \/ targetGroup.files[i].status # "complete"
                              \/ ~targetGroup.files[i].hasBlob
                  IN IF incomplete
                     THEN Saved(c, folderName, FALSE, FALSE, <<>>,
                                "Pastikan semua berkas dalam folder selesai diterima sebelum menyimpan.")
                     ELSE SaveFiles(c, folderName, targetGroup.files)
    /\ lastMsg' = [to |-> c, event |-> "save", body |-> NoBody,
                   files |-> incomingFiles[c],
                   buffers |-> incomingBuffers[c]]
    /\ UNCHANGED <<relayVars, netVars, incomingFiles, incomingBuffers,
                   queuedFiles, outgoingFiles, sendRuns, sendTasks, nextId,
                   origin, emitThrows, alone, missed, noteVars>>

\* ------------------------------ a station receiving the files of folders
\* Three transfers of one byte each: two files of the folder "docs" and
\* a third file that comes without a path, with a path that starts with
\* "/" or with a path of one segment.
FolderTransferIds == {1, 2, 3}

FolderPaths(t) ==
    IF t = 1 THEN {"docs/a.txt"}
    ELSE IF t = 2 THEN {"docs/sub/b.txt"}
    ELSE {"", "/x", "pics"}

\* The peer sends every message for transfer 1, no chunk and no error
\* for transfer 2, and the meta only for transfer 3.
FolderEvents(t) ==
    IF t = 1 THEN FileEvents
    ELSE IF t = 2 THEN {"file:meta", "file:complete"}
    ELSE {"file:meta"}

FolderBodies(ev, t) ==
    IF ev = "file:meta"
    THEN {MetaBody([transferId |-> t, size |-> 1, relativePath |-> path,
                    totalChunks |-> TotalChunks(1)]) : path \in FolderPaths(t)}
    ELSE IF ev = "file:chunk"
    THEN {[NoBody EXCEPT !.transferId = t, !.chunkIndex = 0,
                         !.chunk = Slice(t, 1, 0, FILE_CHUNK_SIZE)]}
    ELSE IF ev = "file:complete" THEN {[NoBody EXCEPT !.transferId = t]}
    ELSE {[NoBody EXCEPT !.transferId = t, !.message = "boom"]}

InitFolder == InitReceive

\* The peer sends the next message of transfer t once the station has
\* handled the last, and one chunk per meta.
PeerSendsFile(t) ==
    \E ev \in FolderEvents(t) : \E body \in FolderBodies(ev, t) :
        /\ inbox[2] = <<>>
        /\ ev = "file:chunk" =>
              \A k \in DOMAIN incomingFiles[2] :
                  incomingFiles[2][k].meta.transferId = t
                  => incomingFiles[2][k].receivedChunks < 1
        /\ FileRelay(1, ev, ObjectPayload(StrVal(EffectiveRoomId), body))
        /\ missed' = MissedAfter(1, ev, ObjectPayload(StrVal(EffectiveRoomId),
                                                      body))
        /\ UNCHANGED <<attached, toRelay, senderVars, heldVars, noteVars>>

FolderPeerSends == \E t \in FolderTransferIds : PeerSendsFile(t)

NextFolder ==
    \/ FolderPeerSends
    \/ ReceiveFileMeta
    \/ ReceiveFileChunk
    \/ ReceiveFileComplete
    \/ ReceiveFileError

SpecFolder == InitFolder /\ [][NextFolder]_vars

\* ----------------------------------- a station saving a received folder
\* The two files of the folder "docs" arrive and the user saves at any
\* point, under the name of the folder or under a name no group has.
SaveTransferIds == {1, 2}

SaveNames == {"docs", "pics"}

SavePeerSends == \E t \in SaveTransferIds : PeerSendsFile(t)

UserSaves ==
    \E c \in Conns, folderName \in SaveNames :
        HandleSaveFolder(c, folderName)

NextSave ==
    \/ SavePeerSends
    \/ ReceiveFileMeta
    \/ ReceiveFileChunk
    \/ ReceiveFileComplete
    \/ ReceiveFileError
    \/ UserSaves

SpecSave == InitFolder /\ [][NextSave]_vars

\* ------------------------------------------------- requests to the relay
\* Room names clients address: names the callers choose.  The private
\* room of a connection carries the identifier the relay generated for
\* it and is not addressed by the requests enumerated here.
RoomNames == {<<"x">>, <<"y">>}

BlankStrings == {<<>>, <<" ">>}

RoomIdVals ==
    {StrVal(s) : s \in RoomNames \cup BlankStrings}
    \cup {NumberVal, UndefinedVal}

RelayBody == [NoBody EXCEPT !.transferId = 1]

RoomPayloads ==
    {ObjectPayload(v, NoBody) : v \in RoomIdVals}
    \cup {UndefinedPayload, NullPayload}

FilePayloads ==
    {ObjectPayload(v, RelayBody) : v \in RoomIdVals}
    \cup {UndefinedPayload, NullPayload}

\* ----------------------------------------------------- relay under any
\* client: requests arrive straight from the environment.
InitRelay ==
    /\ connected = {}
    /\ rooms = [c \in Conns |-> {}]
    /\ thrown = {}
    /\ lastReq = NoReq
    /\ preRooms = [c \in Conns |-> {}]
    /\ emitted = <<>>
    /\ attached = {}
    /\ toRelay = [c \in Conns |-> <<>>]
    /\ inbox = [c \in Conns |-> <<>>]
    /\ StationIdle

EnvConnect == \E c \in Conns : Connect(c) /\ UNCHANGED <<attached, toRelay, stationVars>>

EnvRoomJoin ==
    \E c \in Conns, p \in RoomPayloads :
        RoomJoin(c, p) /\ UNCHANGED <<attached, toRelay, stationVars>>

EnvRoomLeave ==
    \E c \in Conns, p \in RoomPayloads :
        RoomLeave(c, p) /\ UNCHANGED <<attached, toRelay, stationVars>>

EnvFileRelay ==
    \E c \in Conns, ev \in FileEvents, p \in FilePayloads :
        FileRelay(c, ev, p) /\ UNCHANGED <<attached, toRelay, stationVars>>

EnvDisconnect ==
    \E c \in Conns : Disconnect(c) /\ UNCHANGED <<attached, toRelay, stationVars>>

NextRelay ==
    \/ EnvConnect
    \/ EnvRoomJoin
    \/ EnvRoomLeave
    \/ EnvFileRelay
    \/ EnvDisconnect

SpecRelay == InitRelay /\ [][NextRelay]_vars

\* ------------------------------------------------- relay claims C2..C9
LastConn == lastReq.conn
LastRoomId == RoomIdOf(lastReq.payload)
LastRoom == LastRoomId.str

\* How many of the messages emitted for the last request went to
\* connection d with event ev for room r.
CountMsgs(d, ev, r) ==
    Cardinality({i \in DOMAIN emitted :
                    /\ emitted[i].to = d
                    /\ emitted[i].event = ev
                    /\ emitted[i].room = r})

CountTo(d) == Cardinality({i \in DOMAIN emitted : emitted[i].to = d})

\* The claims' own reading of "a non-blank string": a string with at
\* least one character that is not white space.
NonBlankString(v) ==
    /\ v.type = "string"
    /\ \E i \in DOMAIN v.str : v.str[i] \notin {" ", "\t", "\n"}

MembersBefore(r) == {d \in Conns : r \in preRooms[d]}
MembersNow(r) == {d \in Conns : r \in rooms[d]}

C4_DisconnectFanout ==
    lastReq.event = "disconnect" =>
        \A r \in preRooms[LastConn] \ {SocketId(LastConn)} :
            \A d \in Conns :
                CountMsgs(d, "peer:left", r) =
                    IF d # LastConn /\ d \in MembersBefore(r) THEN 1 ELSE 0

C6_LeaveState ==
    (lastReq.event = "room:leave" /\ NonBlankString(LastRoomId)) =>
        /\ rooms = [preRooms EXCEPT ![LastConn] = @ \ {LastRoom}]
        /\ \A d \in Conns :
              CountTo(d) =
                  IF d # LastConn /\ d \in MembersNow(LastRoom) THEN 1 ELSE 0
        /\ \A i \in DOMAIN emitted :
              /\ emitted[i].event = "peer:left"
              /\ emitted[i].room = LastRoom
              /\ emitted[i].payload = ObjectPayload(LastRoomId, NoBody)

\* A connection that is outside room r before and after a step gets no
\* message addressed to r in that step.
C6_NothingWhileOut ==
    \A d \in Conns, r \in RoomNames :
        (r \notin rooms[d] /\ r \notin rooms'[d]) =>
            \A i \in DOMAIN emitted' :
                ~(emitted'[i].to = d /\ emitted'[i].room = r)

C7_InvalidJoinIgnored ==
    (lastReq.event = "room:join" /\ ~NonBlankString(LastRoomId)) =>
        /\ rooms = preRooms
        /\ emitted = <<>>

C7_Witness ==
    /\ lastReq.event = "room:join"
    /\ ~NonBlankString(LastRoomId)
    /\ LastRoomId.type = "string"
    /\ LastRoomId.str # <<>>
    /\ Cardinality(connected) >= 2

\* C8: a file:* request whose roomId is missing, not a string or blank
\* (or that has no payload) is dropped: nothing is emitted, the handler
\* raises nothing, the rooms are unchanged.
C8_MalformedFileDropped ==
    (lastReq.event \in FileEvents /\ ~NonBlankString(LastRoomId)) =>
        /\ emitted = <<>>
        /\ rooms = preRooms
        /\ lastReq.event \notin thrown

C8_Witness ==
    /\ lastReq.event \in FileEvents
    /\ lastReq.payload.kind = "undefined"
    /\ \E d \in Conns \ {LastConn} : rooms[d] \cap RoomNames # {}

\* C9 (as claimed): no relay handler ever raises an error, whatever the
\* client sends.
C9_NoHandlerThrows == thrown = {}

\* ------------------------------------------ transfer claims C1 and C10
OutgoingOf(c, t) ==
    {k \in DOMAIN outgoingFiles[c] : outgoingFiles[c][k].meta.transferId = t}

IncomingOf(c, t) ==
    {k \in DOMAIN incomingFiles[c] : incomingFiles[c][k].meta.transferId = t}

IsChunkOf(t, req) ==
    req.event = "file:chunk" /\ req.payload.body.transferId = t

\* The file:chunk requests station c has emitted for transfer t, in
\* emission order (nothing takes them off the wire in SpecSend).
ChunkReqs(c, t) ==
    LET Mine(req) == IsChunkOf(t, req) IN SelectSeq(toRelay[c], Mine)

RECURSIVE SumLengths(_)
SumLengths(reqs) ==
    IF reqs = <<>> THEN 0
    ELSE (Head(reqs).payload.body.chunk.hi - Head(reqs).payload.body.chunk.lo)
         + SumLengths(Tail(reqs))

\* n = max(1, ceil(s / C)), said without division.
IsChunkCount(n, s) ==
    /\ n >= 1
    /\ n * (512 * 1024) >= s
    /\ n = 1 \/ (n - 1) * (512 * 1024) < s

\* C10: for a file of size s the declared totalChunks is
\* max(1, ceil(s / 512 KiB)), chunk i carries the bytes
\* [i*C, min((i+1)*C, s)) of the file, and the chunks of a completed
\* transfer are chunks 0..totalChunks-1 and their lengths add up to s.
C10_Chunking ==
    \A c \in Conns : \A k \in DOMAIN outgoingFiles[c] :
        LET o == outgoingFiles[c][k]
            t == o.meta.transferId
            s == origin[t].size
            reqs == ChunkReqs(c, t)
        IN /\ o.meta.size = s
           /\ IsChunkCount(o.meta.totalChunks, s)
           /\ \A j \in DOMAIN reqs :
                 /\ reqs[j].payload.body.chunkIndex = j - 1
                 /\ reqs[j].payload.body.chunk =
                       [src |-> origin[t].file,
                        lo |-> (j - 1) * (512 * 1024),
                        hi |-> IF j * (512 * 1024) < s
                               THEN j * (512 * 1024) ELSE s]
           /\ o.status = "complete" =>
                 /\ Len(reqs) = o.meta.totalChunks
                 /\ SumLengths(reqs) = s

C10_Witness ==
    \E c \in Conns : \E k1, k2 \in DOMAIN outgoingFiles[c] :
        /\ outgoingFiles[c][k1].status = "complete"
        /\ outgoingFiles[c][k1].meta.size = 0
        /\ Len(ChunkReqs(c, outgoingFiles[c][k1].meta.transferId)) = 1
        /\ outgoingFiles[c][k2].status = "complete"
        /\ outgoingFiles[c][k2].meta.size = (MaxChunks - 1) * (512 * 1024) + 1
        /\ Len(ChunkReqs(c, outgoingFiles[c][k2].meta.transferId)) = MaxChunks

Mentions(t, payload) == payload.body.transferId = t

\* Every message of transfer t sent by s has reached d: the sender has
\* emitted file:complete and nothing of t is left on the way.
AllDelivered(t, s, d) ==
    /\ \E k \in OutgoingOf(s, t) : outgoingFiles[s][k].status = "complete"
    /\ \A i \in DOMAIN toRelay[s] : ~Mentions(t, toRelay[s][i].payload)
    /\ \A i \in DOMAIN inbox[d] : ~Mentions(t, inbox[d][i].payload)

\* C1: when the receiver was in the room before file:meta was emitted and
\* every message of the transfer has been delivered, in order and once,
\* the receiver holds exactly one transfer for it, complete, whose
\* payload is the bytes of the sender's file (also for an empty file).
C1_RoundTrip ==
    \A t \in DOMAIN origin :
        \A d \in origin[t].audience \ {origin[t].conn} :
            AllDelivered(t, origin[t].conn, d) =>
                /\ Cardinality(IncomingOf(d, t)) = 1
                /\ \A k \in IncomingOf(d, t) :
                      /\ incomingFiles[d][k].status = "complete"
                      /\ incomingFiles[d][k].hasBlob
                      /\ incomingFiles[d][k].blob =
                            IF origin[t].size = 0 THEN <<>>
                            ELSE <<[src |-> origin[t].file, lo |-> 0,
                                    hi |-> origin[t].size]>>

C1_Witness ==
    \E t1, t2 \in DOMAIN origin :
        /\ origin[t1].size = 0
        /\ origin[t2].size = (MaxChunks - 1) * (512 * 1024) + 1
        /\ \A t \in {t1, t2} :
              /\ 2 \in origin[t].audience
              /\ AllDelivered(t, origin[t].conn, 2)
              /\ \E k \in IncomingOf(2, t) :
                    /\ incomingFiles[2][k].status = "complete"
                    /\ incomingFiles[2][k].meta.totalChunks = TotalChunks(origin[t].size)

\* ------------------------------------------------ sender claims C11..C17
\* The requests station c has emitted that carry transferId t, in
\* emission order.
ReqsOf(c, t) ==
    LET Mine(req) == req.payload.body.transferId = t
    IN SelectSeq(toRelay[c], Mine)

Terminal(status) == status \in {"complete", "error"}

InFlight(c) ==
    {k \in DOMAIN outgoingFiles[c] : ~Terminal(outgoingFiles[c][k].status)}

\* The batch of the file at queue position f (positions count from 1).
BatchOf(f) == (f - 1) \div 3

\* The file at queue position f has a transfer that has ended.
Ended(c, f) ==
    \E k \in DOMAIN outgoingFiles[c] :
        /\ origin[outgoingFiles[c][k].meta.transferId].file = f
        /\ Terminal(outgoingFiles[c][k].status)

\* C12: during one run at most 3 transfers are started and not yet
\* terminal, and once a transfer of a batch has emitted its file:meta
\* every file of the batches before it has reached complete or error.
C12_BatchesOfThree ==
    \A c \in Conns :
        /\ Cardinality(InFlight(c)) <= 3
        /\ \A i \in DOMAIN toRelay[c] :
              toRelay[c][i].event = "file:meta" =>
                 LET f == origin[toRelay[c][i].payload.body.transferId].file
                 IN \A g \in 1..f : BatchOf(g) < BatchOf(f) => Ended(c, g)

C12_Witness ==
    \E c \in Conns : \E k1, k2, k3 \in DOMAIN outgoingFiles[c] :
        /\ origin[outgoingFiles[c][k1].meta.transferId].file = 4
        /\ ~Terminal(outgoingFiles[c][k1].status)
        /\ ReqsOf(c, outgoingFiles[c][k1].meta.transferId) # <<>>
        /\ BatchOf(origin[outgoingFiles[c][k2].meta.transferId].file) = 0
        /\ outgoingFiles[c][k2].status = "error"
        /\ BatchOf(origin[outgoingFiles[c][k3].meta.transferId].file) = 0
        /\ outgoingFiles[c][k3].status = "complete"

\* Nothing of a run is left: no call in progress, no read awaited.
Quiescent(c) ==
    /\ outgoingFiles[c] # <<>>
    /\ sendRuns[c] = {}
    /\ sendTasks[c] = {}

FaultyFile(f) == \E x \in emitThrows : x.file = f

\* C13: when some files of a run fail during a read or during the
\* emission of their file:meta, file:chunk or file:complete, the failing
\* transfers are marked error and every other file of the run, in the
\* same and in later batches, has its messages emitted and is complete:
\* once the run is over every file has a transfer in status complete or
\* error, in status error when one of its emissions failed.
C13_FailureIsolation ==
    \A c \in Conns :
        Quiescent(c) =>
            \A f \in 1..Len(BatchQueue) :
                \E k \in DOMAIN outgoingFiles[c] :
                    LET o == outgoingFiles[c][k]
                        reqs == ReqsOf(c, o.meta.transferId)
                    IN /\ origin[o.meta.transferId].file = f
                       /\ Terminal(o.status)
                       /\ FaultyFile(f) => o.status = "error"
                       /\ o.status = "complete" =>
                             /\ Len(reqs) = o.meta.totalChunks + 2
                             /\ reqs[1].event = "file:meta"
                             /\ reqs[Len(reqs)].event = "file:complete"

\* The queue ids of the files whose transfer reaches complete or error
\* in this step.
NewlyEnded(c) ==
    {origin[outgoingFiles'[c][k].meta.transferId].file :
        k \in {j \in DOMAIN outgoingFiles'[c] :
                 /\ Terminal(outgoingFiles'[c][j].status)
                 /\ \A i \in DOMAIN outgoingFiles[c] :
                       outgoingFiles[c][i].meta.transferId =
                           outgoingFiles'[c][j].meta.transferId
                       => ~Terminal(outgoingFiles[c][i].status)}}

C14_Step ==
    \A c \in Conns :
        LET Stays(item) == item.id \notin NewlyEnded(c)
        IN queuedFiles'[c] = SelectSeq(queuedFiles[c], Stays)

\* C14: a step in which outgoing transfers reach complete or error
\* removes the queue entries they were created from and no other entry.
C14_DequeueOnEnd == [][C14_Step]_vars

C14_Witness ==
    \E c \in Conns : \E k \in DOMAIN outgoingFiles[c] :
        /\ Terminal(outgoingFiles[c][k].status)
        /\ origin[outgoingFiles[c][k].meta.transferId].file = 2
        /\ \E i \in DOMAIN queuedFiles[c] : queuedFiles[c][i].id = 1
        /\ \A i \in DOMAIN queuedFiles[c] : queuedFiles[c][i].id # 2

\* The file at queue position f is in the snapshot of a call in progress.
InRun(c, f) ==
    \E r \in sendRuns[c] : \E i \in DOMAIN r.files : r.files[i].id = f

QueueIds == (1..(nextId - 1)) \ DOMAIN origin

\* The transfers created from the queue entry f.
TransfersOf(f) == {t \in DOMAIN origin : origin[t].file = f}

MetaCount(c, t) ==
    Cardinality({i \in DOMAIN toRelay[c] :
                    /\ toRelay[c][i].event = "file:meta"
                    /\ toRelay[c][i].payload.body.transferId = t})

PickedPath(file) ==
    IF file.webkitRelativePath = "" THEN file.name ELSE file.webkitRelativePath

\* The picked file is one the station leaves out: its path goes through
\* one of the excluded folders, ends in .log or names a system file.
LeftOut(file) ==
    \/ \E folder \in {"node_modules/", ".git/", ".next/", "dist/", "build/",
                       ".cache/", "coverage/", ".nyc_output/", "logs/"} :
          Includes(PickedPath(file), folder)
    \/ EndsWith(PickedPath(file), ".log")
    \/ Includes(PickedPath(file), ".DS_Store")
    \/ Includes(PickedPath(file), "Thumbs.db")

\* The step appends entries for the files in added, in order, to the
\* queue of c, keeps the entries that were there, emits nothing and
\* creates no outgoing transfer.
Appends(c, added) ==
    /\ Len(queuedFiles'[c]) = Len(queuedFiles[c]) + Len(added)
    /\ \A i \in DOMAIN queuedFiles[c] : queuedFiles'[c][i] = queuedFiles[c][i]
    /\ \A k \in DOMAIN added :
          LET q == queuedFiles'[c][Len(queuedFiles[c]) + k]
          IN /\ q.name = added[k].name
             /\ q.size = added[k].size
             /\ q.relativePath = added[k].webkitRelativePath
             /\ \A i \in DOMAIN queuedFiles'[c] :
                   i # Len(queuedFiles[c]) + k => queuedFiles'[c][i].id # q.id
    /\ toRelay' = toRelay
    /\ outgoingFiles' = outgoingFiles
    /\ sendTasks' = sendTasks
    /\ sendRuns' = sendRuns

C17_Step ==
    \A c \in Conns : \A fileList \in PickLists :
        EnqueueFiles(c, fileList) =>
            LET Taken(file) == ~LeftOut(file)
            IN /\ Appends(c, SelectSeq(fileList, Taken))
               /\ (\E k \in DOMAIN fileList : LeftOut(fileList[k]))
                     => folderActionMessage'[c] # ""

LastTo == lastMsg.to
LastTransfer == lastMsg.body.transferId

\* The incoming transfers with transferId t that the station held before
\* it handled the last message.
HeldBefore(t) ==
    {k \in DOMAIN lastMsg.files : lastMsg.files[k].meta.transferId = t}

HadBuffer(t) == t \in DOMAIN lastMsg.buffers

\* The chunks held by the slots i..last (counted from 1) of a buffer, in
\* increasing index order.
RECURSIVE Populated(_, _, _)
Populated(buffer, i, last) ==
    IF i > Len(buffer) \/ i > last THEN <<>>
    ELSE (IF buffer[i] = NoChunk THEN <<>> ELSE <<buffer[i]>>)
         \o Populated(buffer, i + 1, last)

\* C18: after a file:meta for a transferId the station already holds,
\* there is exactly one incoming transfer with that transferId, pending,
\* with receivedBytes = 0 and receivedChunks = 0 and a buffer of
\* totalChunks empty slots; and the payload a file:complete assembles
\* holds the chunks of the buffer as it is then and nothing else, so no
\* chunk from before the reset.
C18_MetaResets ==
    /\ (lastMsg.event = "file:meta" /\ HeldBefore(LastTransfer) # {}) =>
          /\ Cardinality(IncomingOf(LastTo, LastTransfer)) = 1
          /\ \A k \in IncomingOf(LastTo, LastTransfer) :
                LET f == incomingFiles[LastTo][k]
                IN /\ f.status = "pending"
                   /\ f.receivedBytes = 0
                   /\ f.receivedChunks = 0
                   /\ ~f.hasBlob
                   /\ f.meta.totalChunks = lastMsg.body.totalChunks
          /\ LastTransfer \in DOMAIN incomingBuffers[LastTo]
          /\ incomingBuffers[LastTo][LastTransfer] =
                [i \in 1..lastMsg.body.totalChunks |-> NoChunk]
    /\ (lastMsg.event = "file:complete" /\ HadBuffer(LastTransfer)) =>
          \A k \in IncomingOf(LastTo, LastTransfer) :
              incomingFiles[LastTo][k].blob =
                  BlobOf(Populated(lastMsg.buffers[LastTransfer], 1,
                                   Len(lastMsg.buffers[LastTransfer])))

C18_Witness ==
    /\ lastMsg.event = "file:meta"
    /\ HadBuffer(LastTransfer)
    /\ \E i \in DOMAIN lastMsg.buffers[LastTransfer] :
          lastMsg.buffers[LastTransfer][i] # NoChunk
    /\ \E k \in HeldBefore(LastTransfer) :
          /\ lastMsg.files[k].status = "receiving"
          /\ lastMsg.files[k].receivedChunks >= 1
    /\ Len(incomingFiles[LastTo]) = 2

\* C19: a file:chunk whose transferId has no slot buffer leaves the
\* incoming transfers and the slot buffers of the station as they were.
C19_UnknownChunkDropped ==
    (lastMsg.event = "file:chunk" /\ ~HadBuffer(LastTransfer)) =>
        /\ incomingFiles[LastTo] = lastMsg.files
        /\ incomingBuffers[LastTo] = lastMsg.buffers

C19_Witness ==
    /\ lastMsg.event = "file:chunk"
    /\ ~HadBuffer(LastTransfer)
    /\ \E k \in HeldBefore(LastTransfer) : lastMsg.files[k].status = "complete"
    /\ \E k \in DOMAIN incomingFiles[LastTo] :
          incomingFiles[LastTo][k].status = "receiving"

RECURSIVE BytesOf(_)
BytesOf(blob) ==
    IF blob = <<>> THEN 0
    ELSE (Head(blob).hi - Head(blob).lo) + BytesOf(Tail(blob))

\* C20: on file:complete for a transfer with a slot buffer the payload
\* is the populated slots 0..totalChunks-1 in increasing index order,
\* empty slots skipped, and the transfer becomes complete; with an empty
\* slot among them the payload is shorter than the declared size.
C20_AssemblesDeclaredSlots ==
    (lastMsg.event = "file:complete" /\ HadBuffer(LastTransfer)) =>
        \A k \in IncomingOf(LastTo, LastTransfer) :
            LET f == incomingFiles[LastTo][k]
                buffer == lastMsg.buffers[LastTransfer]
            IN /\ f.status = "complete"
               /\ f.hasBlob
               /\ f.blob = BlobOf(Populated(buffer, 1, f.meta.totalChunks))
               /\ (\E i \in 1..f.meta.totalChunks : buffer[i] = NoChunk)
                     => BytesOf(f.blob) < f.meta.size

\* ---------------------------------------------- receiver claims C21..C26
\* C21 (as claimed): every slot buffer has the totalChunks slots its meta
\* declared, a file:chunk with chunkIndex >= totalChunks leaves the slot
\* buffer as it was, and the assembled payload holds the chunks of the
\* slots 0..totalChunks-1 only.
C21_ChunkIndexInRange ==
    /\ \A c \in Conns : \A t \in DOMAIN incomingBuffers[c] :
          \A k \in IncomingOf(c, t) :
              Len(incomingBuffers[c][t]) = incomingFiles[c][k].meta.totalChunks
    /\ (lastMsg.event = "file:chunk" /\ HadBuffer(LastTransfer)) =>
          \A k \in HeldBefore(LastTransfer) :
              lastMsg.body.chunkIndex >= lastMsg.files[k].meta.totalChunks
              => incomingBuffers[LastTo][LastTransfer]
                    = lastMsg.buffers[LastTransfer]
    /\ (lastMsg.event = "file:complete" /\ HadBuffer(LastTransfer)) =>
          \A k \in IncomingOf(LastTo, LastTransfer) :
              \A i \in DOMAIN lastMsg.buffers[LastTransfer] :
                  (i > incomingFiles[LastTo][k].meta.totalChunks
                   /\ lastMsg.buffers[LastTransfer][i] # NoChunk)
                  => \A j \in DOMAIN incomingFiles[LastTo][k].blob :
                        incomingFiles[LastTo][k].blob[j].hi
                            <= lastMsg.buffers[LastTransfer][i].lo

\* C22 (as claimed): an incoming transfer that was complete or error
\* when the station handled its last message has the same status after
\* it, whatever the message was; a file:meta for its transferId registers
\* a new transfer in its place and is not counted as a change.
C22_IncomingMonotone ==
    \A k \in DOMAIN lastMsg.files :
        LET before == lastMsg.files[k]
            t == before.meta.transferId
        IN (/\ before.status \in {"complete", "error"}
            /\ ~(lastMsg.event = "file:meta" /\ LastTransfer = t))
           => \A j \in IncomingOf(LastTo, t) :
                 incomingFiles[LastTo][j].status = before.status

\* ------------------------------------------------------ sender claim C23
\* The statuses an outgoing transfer in status a can have after one more
\* step of its sendFile.  The handler that sends the last chunk sets
\* sending and then complete, so complete follows pending in one step
\* when the file has one chunk.
MayFollow(a, b) ==
    \/ a = b
    \/ a = "pending" /\ b \in {"sending", "complete", "error"}
    \/ a = "sending" /\ b \in {"complete", "error"}

\* C23: an outgoing transfer starts pending with sentChunks = 0; it moves
\* only along pending -> sending -> complete or pending/sending -> error
\* and never leaves complete or error; its sentChunks never decreases,
\* never exceeds totalChunks and is totalChunks when the status is
\* complete.
C23_Step ==
    \A c \in Conns :
        /\ \A j \in DOMAIN outgoingFiles'[c] :
              LET n == outgoingFiles'[c][j]
              IN /\ n.sentChunks \in 0..n.meta.totalChunks
                 /\ n.status \in {"pending", "sending", "complete", "error"}
                 /\ n.status = "complete" => n.sentChunks = n.meta.totalChunks
                 /\ n.status = "pending" => n.sentChunks = 0
                 /\ OutgoingOf(c, n.meta.transferId) = {}
                       => n.status = "pending"
        /\ \A k \in DOMAIN outgoingFiles[c] :
              LET o == outgoingFiles[c][k]
              IN \E j \in DOMAIN outgoingFiles'[c] :
                    LET n == outgoingFiles'[c][j]
                    IN /\ n.meta = o.meta
                       /\ n.sentChunks >= o.sentChunks
                       /\ MayFollow(o.status, n.status)

C23_OutgoingMachine == [][C23_Step]_vars

C23_Witness ==
    \E k1, k2 \in DOMAIN outgoingFiles[1] :
        /\ outgoingFiles[1][k1].status = "complete"
        /\ outgoingFiles[1][k1].sentChunks = MaxChunks
        /\ outgoingFiles[1][k2].status = "error"
        /\ outgoingFiles[1][k2].meta.totalChunks = MaxChunks
        /\ outgoingFiles[1][k2].sentChunks = MaxChunks - 1

\* C24: a file:chunk for a transfer with a slot buffer puts the chunk
\* into slot chunkIndex, in the place of what the slot held, and leaves
\* the other slots alone; it adds the chunk length to receivedBytes and
\* one to receivedChunks and sets status receiving, also when the slot
\* was populated before, so that receivedChunks counts the chunk
\* messages since the meta and can exceed totalChunks; the other
\* transfers and buffers stay as they were.
C24_ChunkStored ==
    (lastMsg.event = "file:chunk" /\ HadBuffer(LastTransfer)) =>
        LET old == lastMsg.buffers[LastTransfer]
            new == incomingBuffers[LastTo][LastTransfer]
            slot == lastMsg.body.chunkIndex + 1
        IN /\ DOMAIN incomingBuffers[LastTo] = DOMAIN lastMsg.buffers
           /\ \A t \in DOMAIN lastMsg.buffers \ {LastTransfer} :
                 incomingBuffers[LastTo][t] = lastMsg.buffers[t]
           /\ Len(new) >= Len(old)
           /\ new[slot] = lastMsg.body.chunk
           /\ \A i \in DOMAIN old \ {slot} : new[i] = old[i]
           /\ DOMAIN incomingFiles[LastTo] = DOMAIN lastMsg.files
           /\ \A k \in DOMAIN lastMsg.files :
                 LET was == lastMsg.files[k]
                     now == incomingFiles[LastTo][k]
                 IN IF was.meta.transferId # LastTransfer
                    THEN now = was
                    ELSE /\ now.meta = was.meta
                         /\ now.receivedBytes =
                               was.receivedBytes
                               + (lastMsg.body.chunk.hi - lastMsg.body.chunk.lo)
                         /\ now.receivedChunks = was.receivedChunks + 1
                         /\ now.status = "receiving"

\* A second, different chunk for a populated slot, after which
\* receivedChunks is more than totalChunks.
C24_Witness ==
    /\ lastMsg.event = "file:chunk"
    /\ HadBuffer(LastTransfer)
    /\ lastMsg.body.chunkIndex + 1 \in DOMAIN lastMsg.buffers[LastTransfer]
    /\ lastMsg.buffers[LastTransfer][lastMsg.body.chunkIndex + 1]
          \notin {NoChunk, lastMsg.body.chunk}
    /\ \E k \in IncomingOf(LastTo, LastTransfer) :
          incomingFiles[LastTo][k].receivedChunks
              > incomingFiles[LastTo][k].meta.totalChunks

\* C25 (as claimed): after a file:error the transfer with that
\* transferId has status error with the carried message, or the default
\* message when none is carried, and its slot buffer is gone; and an
\* incoming transfer in status error never has an assembled payload.
C25_ErrorDiscards ==
    /\ lastMsg.event = "file:error" =>
          /\ LastTransfer \notin DOMAIN incomingBuffers[LastTo]
          /\ \A k \in IncomingOf(LastTo, LastTransfer) :
                /\ incomingFiles[LastTo][k].status = "error"
                /\ incomingFiles[LastTo][k].errorMessage =
                      IF lastMsg.body.message = ""
                      THEN "Terjadi kesalahan saat menerima berkas."
                      ELSE lastMsg.body.message
    /\ \A c \in Conns : \A k \in DOMAIN incomingFiles[c] :
          incomingFiles[c][k].status = "error"
          => ~incomingFiles[c][k].hasBlob /\ incomingFiles[c][k].blob = <<>>

\* C26: in every state of a station, a slot buffer is registered for a
\* transferId exactly when the station holds an incoming transfer with
\* that transferId in status pending or receiving; a transfer in status
\* complete or error has no buffer.
C26_BufferLifetime ==
    \A c \in Conns :
        /\ \A t \in DOMAIN incomingBuffers[c] :
              /\ IncomingOf(c, t) # {}
              /\ \A k \in IncomingOf(c, t) :
                    incomingFiles[c][k].status \in {"pending", "receiving"}
        /\ \A k \in DOMAIN incomingFiles[c] :
              incomingFiles[c][k].status \in {"pending", "receiving"}
              <=> incomingFiles[c][k].meta.transferId
                     \in DOMAIN incomingBuffers[c]

\* One transfer of each status at once.
C26_Witness ==
    \E k1, k2 \in DOMAIN incomingFiles[2] :
        /\ incomingFiles[2][k1].status = "receiving"
        /\ incomingFiles[2][k2].status \in {"complete", "error"}
        /\ DOMAIN incomingBuffers[2] = {incomingFiles[2][k1].meta.transferId}
        /\ lastMsg.event = "file:error"
        /\ HadBuffer(LastTransfer)

\* ------------------------------------------------ folder claims C27..C29
\* g is the first of the '/'-separated segments of path.
FirstSegment(g, path) ==
    /\ \A i \in 1..Len(g) : SubSeq(g, i, i) # "/"
    /\ \/ path = g
       \/ /\ Len(path) > Len(g)
          /\ SubSeq(path, 1, Len(g) + 1) = g \o "/"

\* The groups that have the transfer with transferId t as a member.
GroupsOf(c, t) ==
    LET groups == FolderGroups(incomingFiles[c])
    IN {i \in DOMAIN groups :
           \E m \in DOMAIN groups[i].files :
               groups[i].files[m].meta.transferId = t}

\* C27: an incoming transfer whose relativePath has a non-empty first
\* segment is a member of exactly one group, the group of that name, and
\* is in it once; a transfer without relativePath is in no group; and
\* the groups hold current incoming transfers only, each group under a
\* name of its own.
C27_FolderGrouping ==
    \A c \in Conns :
        LET groups == FolderGroups(incomingFiles[c])
        IN /\ \A k \in DOMAIN incomingFiles[c] :
                 LET f == incomingFiles[c][k]
                     mine == GroupsOf(c, f.meta.transferId)
                 IN /\ f.meta.relativePath = "" => mine = {}
                    /\ \A g \in {SubSeq(f.meta.relativePath, 1, n) :
                                    n \in 1..Len(f.meta.relativePath)} :
                          FirstSegment(g, f.meta.relativePath) =>
                              /\ Cardinality(mine) = 1
                              /\ \A i \in mine :
                                    /\ groups[i].folderName = g
                                    /\ Cardinality(
                                          {m \in DOMAIN groups[i].files :
                                              groups[i].files[m] = f}) = 1
           /\ \A i \in DOMAIN groups :
                 /\ groups[i].files # <<>>
                 /\ \A m \in DOMAIN groups[i].files :
                       \E k \in DOMAIN incomingFiles[c] :
                           incomingFiles[c][k] = groups[i].files[m]
                 /\ \A j \in DOMAIN groups :
                       groups[j].folderName = groups[i].folderName => j = i

\* "docs/a.txt" and "docs/sub/b.txt" under "docs", with a transfer that
\* has no relativePath beside them.
C27_Witness ==
    /\ Len(incomingFiles[2]) = 3
    /\ \E k \in DOMAIN incomingFiles[2] :
          incomingFiles[2][k].meta.relativePath = ""
    /\ LET groups == FolderGroups(incomingFiles[2])
       IN /\ Len(groups) = 1
          /\ groups[1].folderName = "docs"
          /\ {groups[1].files[m].meta.relativePath :
                 m \in DOMAIN groups[1].files}
                = {"docs/a.txt", "docs/sub/b.txt"}

\* The members of a group that are not complete or have no payload.
Unfinished(group) ==
    {m \in DOMAIN group.files :
        \/ group.files[m].status \in {"pending", "receiving", "error"}
        \/ ~group.files[m].hasBlob}

\* C28: a group is ready exactly when every member has status complete
\* and an assembled payload; it is not ready while a member is pending,
\* receiving or error.
C28_ReadyIffAllComplete ==
    \A c \in Conns :
        LET groups == FolderGroups(incomingFiles[c])
        IN \A i \in DOMAIN groups :
              /\ Ready(groups[i]) <=> Unfinished(groups[i]) = {}
              /\ Ready(groups[i]) =>
                    \A m \in DOMAIN groups[i].files :
                        groups[i].files[m].status = "complete"

\* "docs" with both members complete is ready while "pics", whose
\* member is pending, is not.
C28_Witness ==
    LET groups == FolderGroups(incomingFiles[2])
    IN \E i, j \in DOMAIN groups :
          /\ groups[i].folderName = "docs"
          /\ Len(groups[i].files) = 2
          /\ Ready(groups[i])
          /\ groups[j].folderName = "pics"
          /\ ~Ready(groups[j])

\* The groups, as they were when the save handler was called, that
\* carry the name it was called with.
SaveTargets ==
    LET groups == FolderGroups(lastMsg.files)
    IN {groups[i] : i \in {j \in DOMAIN groups :
                              groups[j].folderName = lastSave.folderName}}

\* C29: when the save handler is called with a name that no group has,
\* or for a group with a member that is not complete with a payload, it
\* opens no directory picker, builds no archive and writes no file; it
\* sets the notice and changes nothing else of the station.
C29_SaveGated ==
    (/\ lastMsg.event = "save"
     /\ \/ SaveTargets = {}
        \/ \E group \in SaveTargets : Unfinished(group) # {})
    => /\ ~lastSave.picker
       /\ ~lastSave.archive
       /\ lastSave.written = <<>>
       /\ folderActionMessage[LastTo] \in
             {"Folder tidak ditemukan dalam antrian penerimaan.",
              "Pastikan semua berkas dalam folder selesai diterima sebelum menyimpan."}
       /\ incomingFiles[LastTo] = lastMsg.files
       /\ incomingBuffers[LastTo] = lastMsg.buffers

\* A save of "docs" while one member is complete and the other is not.
C29_Witness ==
    /\ lastMsg.event = "save"
    /\ lastSave.folderName = "docs"
    /\ \E group \in SaveTargets :
          /\ Len(group.files) = 2
          /\ Cardinality(Unfinished(group)) = 1
    /\ lastSave.written = <<>>

\* -------------------------------------------------------- relay claim C30
\* The rooms some connection is or was in, the private rooms included.
KnownRooms == UNION {preRooms[d] \cup rooms[d] : d \in Conns}

EntriesOf(files, t) ==
    LET Mine(item) == item.meta.transferId = t
    IN SelectSeq(files, Mine)

BufferOf(buffers, t) ==
    IF t \in DOMAIN buffers THEN <<buffers[t]>> ELSE <<>>

TransferIdsAt(c) ==
    {incomingFiles[c][k].meta.transferId : k \in DOMAIN incomingFiles[c]}
        \cup DOMAIN incomingBuffers[c] \cup DOMAIN alone[c]

\* C31: whatever the interleaving of the messages of transfers with
\* distinct transferIds, a station holds for each transferId the entry
\* (status, counters, payload) and the slot buffer that a station holds
\* which was sent the messages of that transfer alone, in the same order.
C31_TransfersIndependent ==
    \A c \in Conns : \A t \in TransferIdsAt(c) :
        LET solo == IF t \in DOMAIN alone[c] THEN alone[c][t]
                    ELSE [files |-> <<>>, buffers |-> <<>>]
        IN /\ EntriesOf(incomingFiles[c], t) = solo.files
           /\ BufferOf(incomingBuffers[c], t) = BufferOf(solo.buffers, t)

\* A transfer is completed with a payload after a chunk of another
\* transfer was received, and that other transfer is still receiving.
C31_Witness ==
    /\ lastMsg.event = "file:complete"
    /\ \E k \in DOMAIN incomingFiles[lastMsg.to] :
          /\ incomingFiles[lastMsg.to][k].meta.transferId = lastMsg.body.transferId
          /\ incomingFiles[lastMsg.to][k].status = "complete"
          /\ incomingFiles[lastMsg.to][k].blob # <<>>
    /\ \E k \in DOMAIN incomingFiles[lastMsg.to] :
          /\ incomingFiles[lastMsg.to][k].meta.transferId # lastMsg.body.transferId
          /\ incomingFiles[lastMsg.to][k].status = "receiving"
          /\ lastMsg.files # <<>>

\* ---------------------------------------------------------------- C32
\* The file:meta messages for transferId t that wait in a station's inbox.
MetasWaiting(c, t) ==
    {i \in DOMAIN inbox[c] :
        /\ inbox[c][i].event = "file:meta"
        /\ inbox[c][i].payload.body.transferId = t}

\* C32: the relay only forwards.  Handling a file:* message leaves the
\* room membership as it was; only a file:* request makes the relay emit
\* a file:* message, so a later join delivers none; and a station that
\* was outside the room when the file:meta of a transfer was relayed is
\* never sent that file:meta, never registers the transfer and never
\* holds a slot buffer or a payload for it.
C32_PureForwarder ==
    /\ lastReq.event \in FileEvents => rooms = preRooms
    /\ lastReq.event \notin FileEvents =>
          \A i \in DOMAIN emitted : emitted[i].event \notin FileEvents
    /\ \A c \in Conns : \A t \in missed[c] :
          /\ MetasWaiting(c, t) = {}
          /\ EntriesOf(incomingFiles[c], t) = <<>>
          /\ t \notin DOMAIN incomingBuffers[c]

\* A station that joined the room after the file:meta of a transfer was
\* relayed has handled a file:chunk or the file:complete of that transfer.
C32_Witness ==
    /\ lastMsg.event \in {"file:chunk", "file:complete"}
    /\ lastMsg.body.transferId \in missed[lastMsg.to]
    /\ EffectiveRoomId \in rooms[lastMsg.to]

\* ---------------------------------------------------------------- C33
\* The transferIds a station holds in pending or receiving.
OpenAt(c) ==
    {incomingFiles[c][k].meta.transferId : k \in
        {j \in DOMAIN incomingFiles[c] :
            incomingFiles[c][j].status \in {"pending", "receiving"}}}

\* The station handles a file:* message that carries transferId t.
HandlesMessageOf(c, t) ==
    /\ inbox[c] # <<>>
    /\ Head(inbox[c]).event \in FileEvents
    /\ Head(inbox[c]).payload.body.transferId = t
    /\ inbox'[c] = Tail(inbox[c])

C33_Step ==
    \A c \in Conns : \A t \in OpenAt(c) :
        (\/ EntriesOf(incomingFiles'[c], t) # EntriesOf(incomingFiles[c], t)
         \/ BufferOf(incomingBuffers'[c], t) # BufferOf(incomingBuffers[c], t))
        => (HandlesMessageOf(c, t) \/ HandleConnect(c))

\* C33: a transfer a station holds in pending or receiving keeps its
\* status, its counters and its slot buffer through every step that is
\* neither the handling of a message with its transferId nor a new
\* connect of the station: nothing else, and no passing of time, closes it.
C33_AbandonedStaysOpen == [][C33_Step]_vars

\* A transfer that was receiving is still receiving, with the slot
\* buffer it had, after the station handled the file:complete of another
\* transfer.
C33_Witness ==
    /\ lastMsg.event = "file:complete"
    /\ \E t \in OpenAt(lastMsg.to) \ {lastMsg.body.transferId} :
          /\ EntriesOf(lastMsg.files, t) # <<>>
          /\ EntriesOf(lastMsg.files, t)[1].status = "receiving"
          /\ EntriesOf(incomingFiles[lastMsg.to], t) = EntriesOf(lastMsg.files, t)
          /\ t \in DOMAIN incomingBuffers[lastMsg.to]
    /\ EntriesOf(incomingFiles[lastMsg.to], lastMsg.body.transferId) # <<>>
    /\ EntriesOf(incomingFiles[lastMsg.to], lastMsg.body.transferId)[1].status
          = "complete"

\* ---------------------------------------------------------------- C34
\* C34 (as claimed): a file:* request makes the relay deliver messages to
\* the members of a room only if the connection that sent it is in that
\* room when it is handled.
C34_SenderIsMember ==
    (lastReq.event \in FileEvents /\ emitted # <<>>) =>
        \A i \in DOMAIN emitted : emitted[i].room \in preRooms[LastConn]

EmittedOf(ev) == {i \in DOMAIN emitted : emitted[i].event = ev}

C36_OnceUnderOverlap ==
    /\ \A t1 \in DOMAIN origin : \A t2 \in DOMAIN origin :
          (origin[t1].conn = origin[t2].conn /\ origin[t1].file = origin[t2].file)
          => t1 = t2
    /\ \A c \in Conns : Cardinality(InFlight(c)) <= PARALLEL_LIMIT

\* ---------------------------------------------------------------- C37
\* The transfers whose file:meta the step emits.
StartedInStep == DOMAIN origin' \ DOMAIN origin

C37_Step ==
    \A t \in StartedInStep :
        \E k \in DOMAIN queuedFiles[origin'[t].conn] :
            queuedFiles[origin'[t].conn][k].id = origin'[t].file

\* C37 (as claimed): a file:meta is emitted only for a file that is in
\* the queue when its batch starts, so a file the user removed from the
\* queue after send was pressed and before its batch is not transmitted.
C37_RemovedNotSent == [][C37_Step]_vars

\* ---------------------------------------------------------------- C38
\* C38: a file:complete for a transfer with a slot buffer makes the
\* transfer complete with receivedBytes = meta.size and receivedChunks =
\* meta.totalChunks, whatever the counters were and whatever the payload
\* holds; and every complete incoming transfer has those counters.
C38_CompleteCounters ==
    /\ (lastMsg.event = "file:complete" /\ HadBuffer(LastTransfer)) =>
          \A k \in IncomingOf(LastTo, LastTransfer) :
              /\ incomingFiles[LastTo][k].status = "complete"
              /\ incomingFiles[LastTo][k].receivedBytes =
                    incomingFiles[LastTo][k].meta.size
              /\ incomingFiles[LastTo][k].receivedChunks =
                    incomingFiles[LastTo][k].meta.totalChunks
    /\ \A c \in Conns : \A k \in DOMAIN incomingFiles[c] :
          incomingFiles[c][k].status = "complete" =>
              /\ incomingFiles[c][k].receivedBytes = incomingFiles[c][k].meta.size
              /\ incomingFiles[c][k].receivedChunks =
                    incomingFiles[c][k].meta.totalChunks

\* A file:complete closed a transfer whose counters were not the declared
\* ones and whose payload is longer than the declared size.
C38_Witness ==
    /\ lastMsg.event = "file:complete"
    /\ HadBuffer(LastTransfer)
    /\ \E k \in HeldBefore(LastTransfer) :
          /\ lastMsg.files[k].receivedChunks # lastMsg.files[k].meta.totalChunks
          /\ lastMsg.files[k].receivedBytes # lastMsg.files[k].meta.size
    /\ \E k \in IncomingOf(LastTo, LastTransfer) :
          /\ incomingFiles[LastTo][k].status = "complete"
          /\ BytesOf(incomingFiles[LastTo][k].blob) >
                incomingFiles[LastTo][k].meta.size

\* ---------------------------------------------------------------- C39
\* C39: a file:complete for a transferId without a slot buffer (never
\* announced, already complete, already in error) leaves the incoming
\* transfers and the slot buffers of the station as they were: a complete
\* transfer keeps its payload and a transfer in error stays in error.
C39_CompleteWithoutBuffer ==
    (lastMsg.event = "file:complete" /\ ~HadBuffer(LastTransfer)) =>
        /\ incomingFiles[LastTo] = lastMsg.files
        /\ incomingBuffers[LastTo] = lastMsg.buffers

\* A file:complete came for a transfer that a file:error had closed,
\* while the station holds a complete transfer with a payload.
C39_Witness ==
    /\ lastMsg.event = "file:complete"
    /\ ~HadBuffer(LastTransfer)
    /\ \E k \in HeldBefore(LastTransfer) : lastMsg.files[k].status = "error"
    /\ \E k \in DOMAIN incomingFiles[LastTo] :
          /\ incomingFiles[LastTo][k].status = "complete"
          /\ incomingFiles[LastTo][k].blob # <<>>

\* ---------------------------------------------------------------- C40
\* The texts typed into field f of note id before request i.
TypedBefore(i, id, f) ==
    {noteRequests[j].payload[f] : j \in
        {k \in 1..(i - 1) :
            /\ noteRequests[k].kind = "note:" \o f
            /\ noteRequests[k].id = id}}

\* C40 (as claimed): a PATCH for note X holds only fields that were
\* edited on note X, each with a text that was typed into that field of
\* note X.
C40_PatchPerNote ==
    \A i \in DOMAIN noteRequests :
        noteRequests[i].kind = "PATCH" =>
            \A f \in DOMAIN noteRequests[i].payload :
                noteRequests[i].payload[f] \in
                    TypedBefore(i, noteRequests[i].id, f)
====
